---- MODULE Spec2Model ----
(***************************************************************************)
(* A model of the golibri EPUB metadata editor (package epub):             *)
(*   - the metadata reconciliation layer of metadata.go (series, series    *)
(*     index, rating, title sort on the generic Meta list);                *)
(*   - the non-destructive writer of writer.go (Reader.Save), step by      *)
(*     step, over a small filesystem shared by the Readers.               *)
(* Text values the code inspects (ids, refines, contents, values, the      *)
(* declared version) are sequences of one-character strings; attribute     *)
(* names that are only compared with literals are TLA+ strings.            *)
(***************************************************************************)
EXTENDS Integers, Sequences, FiniteSets, TLC

VARIABLES
    fs,     \* the filesystem: dir (path -> inode number, 0: none), ino (inodes)
    rdr,    \* per Reader: zipReader.File, the source handle, OpfPath, Replacements
    pkg,    \* per Reader: the Package (Version, Titles, Metadata.Meta)
    sv,     \* per Reader: the frame of its Save call (pc, tmpPath, w, ...)
    hist    \* history: the calls made so far, what they were given, what Saves renamed

vars == <<fs, rdr, pkg, sv, hist>>

(***************************************************************************)
(* Strings                                                                 *)
(***************************************************************************)
DigitChars == <<"0", "1", "2", "3", "4", "5", "6", "7", "8", "9">>

IsDigit(c) == \E d \in 1..10 : DigitChars[d] = c

DigitVal(c) == (CHOOSE d \in 1..10 : DigitChars[d] = c) - 1

\* strings.TrimSpace
RECURSIVE TrimLeft(_)
TrimLeft(s) == IF s # <<>> /\ Head(s) = " " THEN TrimLeft(Tail(s)) ELSE s

RECURSIVE TrimRight(_)
TrimRight(s) ==
    IF s # <<>> /\ s[Len(s)] = " " THEN TrimRight(SubSeq(s, 1, Len(s) - 1)) ELSE s

TrimSpace(s) == TrimRight(TrimLeft(s))

\* strings.HasPrefix(s, "3")
HasPrefix3(s) == s # <<>> /\ Head(s) = "3"

\* fmt.Sprintf("%d", n) for n >= 0
RECURSIVE SprintfD(_)
SprintfD(n) ==
    IF n < 10 THEN <<DigitChars[n + 1]>>
    ELSE SprintfD(n \div 10) \o <<DigitChars[(n % 10) + 1]>>

\* fmt.Sprintf("c%02d", i)
SprintfC02d(i) == <<"c">> \o (IF i < 10 THEN <<"0">> ELSE <<>>) \o SprintfD(i)

\* the leading run of decimal digits of s
RECURSIVE LeadDigits(_)
LeadDigits(s) ==
    IF s # <<>> /\ IsDigit(Head(s)) THEN <<Head(s)>> \o LeadDigits(Tail(s)) ELSE <<>>

RECURSIVE DigitsVal(_)
DigitsVal(d) ==
    IF d = <<>> THEN 0 ELSE 10 * DigitsVal(SubSeq(d, 1, Len(d) - 1)) + DigitVal(d[Len(d)])

Signed(s) == s # <<>> /\ Head(s) \in {"+", "-"}
Unsigned(s) == IF Signed(s) THEN Tail(s) ELSE s
SignOf(s) == IF s # <<>> /\ Head(s) = "-" THEN -1 ELSE 1

\* fmt.Sscanf(s, "%d", &rating): leading spaces skipped, an optional sign,
\* one or more digits; what follows the number is left unread.
SscanfD(s) ==
    LET t == TrimLeft(s)
        d == LeadDigits(Unsigned(t))
    IN  IF d = <<>> THEN [ok |-> FALSE, v |-> 0]
        ELSE [ok |-> TRUE, v |-> SignOf(t) * DigitsVal(d)]

\* fmt.Sscanf(s, "%f", &ratingFloat) followed by int(ratingFloat): reached only
\* when %d found no digit, so the accepted form is [sign] "." digits, whose
\* integer part is 0.
SscanfF(s) ==
    LET u == Unsigned(TrimLeft(s))
    IN  IF u # <<>> /\ Head(u) = "." /\ LeadDigits(Tail(u)) # <<>>
        THEN [ok |-> TRUE, v |-> 0]
        ELSE [ok |-> FALSE, v |-> 0]

\* Go's integer division by 2 truncates toward zero
GoDiv2(n) == IF n >= 0 THEN n \div 2 ELSE -((-n) \div 2)

\* a text value as one TLA+ string (used when a document is serialised)
RECURSIVE Str(_)
Str(s) == IF s = <<>> THEN "" ELSE Head(s) \o Str(Tail(s))

(***************************************************************************)
(* Package model: the generic Meta list and the accessors of metadata.go   *)
(***************************************************************************)
NoStr == <<>>

\* type Meta struct { ID, Name, Content, Property, Refines, Value }
MkMeta(id, name, content, property, refines, value) ==
    [ID |-> id, Name |-> name, Content |-> content,
     Property |-> property, Refines |-> refines, Value |-> value]

LegacyMeta(name, content) == MkMeta(NoStr, name, content, "", NoStr, NoStr)
PropMeta(id, property, refines, value) == MkMeta(id, "", NoStr, property, refines, value)

SeriesStr == <<"s", "e", "r", "i", "e", "s">>
Hash(id) == <<"#">> \o id

\* the least index of s among those in the set hits, or 0
Least(hits) == IF hits = {} THEN 0 ELSE CHOOSE i \in hits : \A j \in hits : i <= j

\* the index of the first element of s that satisfies the test, or 0
FirstIdx(s, hit) == Least({i \in DOMAIN s : hit[i]})

isEPUB3(p) == HasPrefix3(TrimSpace(p.Version))

\* the refine test shared by GetSeries, GetSeriesIndex, SetSeries, SetSeriesIndex
IsSeriesRefine(r, id) ==
    /\ r.Refines = Hash(id)
    /\ r.Property = "collection-type"
    /\ TrimSpace(r.Value) = SeriesStr

HasSeriesRefine(meta, id) == \E j \in DOMAIN meta : IsSeriesRefine(meta[j], id)

\* (mutant) the refine is compared with the bare id, without the leading "#"
FindCollectionIDNoHash(meta) ==
    LET Hit(m) == m.Property = "belongs-to-collection" /\ m.ID # NoStr
                  /\ \E j \in DOMAIN meta :
                         /\ meta[j].Refines = m.ID
                         /\ meta[j].Property = "collection-type"
                         /\ TrimSpace(meta[j].Value) = SeriesStr
        i == FirstIdx(meta, [n \in DOMAIN meta |-> Hit(meta[n])])
    IN  IF i = 0 THEN NoStr ELSE meta[i].ID

\* the search loop of SetSeries / SetSeriesIndex: the id of the first
\* belongs-to-collection entry with a non-empty id that a series refine names
FindCollectionID(meta) ==
    LET Hit(m) == m.Property = "belongs-to-collection" /\ m.ID # NoStr
                  /\ HasSeriesRefine(meta, m.ID)
        i == FirstIdx(meta, [n \in DOMAIN meta |-> Hit(meta[n])])
    IN  IF i = 0 THEN NoStr ELSE meta[i].ID

GetSeries(p) ==
    LET meta == p.Meta
        Hit(m) == m.Property = "belongs-to-collection" /\ m.Value # NoStr
                  /\ m.ID # NoStr /\ HasSeriesRefine(meta, m.ID)
        i == FirstIdx(meta, [n \in DOMAIN meta |-> Hit(meta[n])])
        Leg(m) == m.Name = "calibre:series"
        k == FirstIdx(meta, [n \in DOMAIN meta |-> Leg(meta[n])])
    IN  IF i # 0 THEN meta[i].Value
        ELSE IF k # 0 THEN meta[k].Content
        ELSE NoStr

GetSeriesIndex(p) ==
    LET meta == p.Meta
        HasPos(id) == \E g \in DOMAIN meta :
                          meta[g].Refines = Hash(id) /\ meta[g].Property = "group-position"
        Hit(m) == m.Property = "belongs-to-collection" /\ m.ID # NoStr
                  /\ HasSeriesRefine(meta, m.ID) /\ HasPos(m.ID)
        i == FirstIdx(meta, [n \in DOMAIN meta |-> Hit(meta[n])])
        Pos(m) == i # 0 /\ m.Refines = Hash(meta[i].ID) /\ m.Property = "group-position"
        Leg(m) == m.Name = "calibre:series_index"
        k == FirstIdx(meta, [n \in DOMAIN meta |-> Leg(meta[n])])
    IN  IF i # 0 THEN meta[FirstIdx(meta, [n \in DOMAIN meta |-> Pos(meta[n])])].Value
        ELSE IF k # 0 THEN meta[k].Content
        ELSE NoStr

\* "Generate deterministic id: c01, c02, ..." over the ids of the Meta entries
NewCollectionID(meta) ==
    LET used == {meta[j].ID : j \in DOMAIN meta} \ {NoStr}
        i == CHOOSE n \in 1..(Len(meta) + 1) :
                 /\ SprintfC02d(n) \notin used
                 /\ \A k \in 1..(n - 1) : SprintfC02d(k) \in used
    IN  SprintfC02d(i)

\* "Compatibility: Also update legacy calibre:<x> IF IT EXISTS"
SyncLegacy(meta, name, content) ==
    [i \in DOMAIN meta |->
        IF meta[i].Name = name THEN [meta[i] EXCEPT !.Content = content] ELSE meta[i]]

\* the EPUB2 loop shared by SetSeries, SetSeriesIndex, SetTitleSort: rewrite
\* every tag of that name, report whether one was found
LegacyFound(meta, name) == \E i \in DOMAIN meta : meta[i].Name = name

\* the EPUB3 branch of SetSeries up to the legacy synchronisation
SetSeriesCollection(meta, series) ==
    LET cid == FindCollectionID(meta)
    IN  IF cid = NoStr
        THEN LET new == NewCollectionID(meta)
             IN  meta \o <<PropMeta(new, "belongs-to-collection", NoStr, series),
                           PropMeta(NoStr, "collection-type", Hash(new), SeriesStr)>>
        ELSE LET IsColl(m) == m.Property = "belongs-to-collection" /\ m.ID = cid
                 c == FirstIdx(meta, [n \in DOMAIN meta |-> IsColl(meta[n])])
                 m1 == [meta EXCEPT ![c].Value = series]
                 IsType(m) == m.Refines = Hash(cid) /\ m.Property = "collection-type"
                 t == FirstIdx(m1, [n \in DOMAIN m1 |-> IsType(m1[n])])
             IN  IF t # 0 THEN [m1 EXCEPT ![t].Value = SeriesStr]
                 ELSE m1 \o <<PropMeta(NoStr, "collection-type", Hash(cid), SeriesStr)>>

SetSeriesEPUB3(meta, series) ==
    SyncLegacy(SetSeriesCollection(meta, series), "calibre:series", series)

SetSeriesEPUB2(meta, series) ==
    IF LegacyFound(meta, "calibre:series")
    THEN SyncLegacy(meta, "calibre:series", series)
    ELSE meta \o <<LegacyMeta("calibre:series", series)>>

\* (mutant) the collection structure is written whatever the declared version
SetSeriesIgnoreVersion(p, series) == SetSeriesEPUB3(p.Meta, series)

\* func (pkg *Package) SetSeries(series string): the new Meta list
SetSeries(p, series) ==
    IF isEPUB3(p) THEN SetSeriesEPUB3(p.Meta, series) ELSE SetSeriesEPUB2(p.Meta, series)

SetSeriesIndexEPUB3(p, index) ==
    LET m0 == IF GetSeries(p) = NoStr THEN SetSeries(p, NoStr) ELSE p.Meta
        cid == FindCollectionID(m0)
        IsPos(m) == m.Refines = Hash(cid) /\ m.Property = "group-position"
        g == FirstIdx(m0, [n \in DOMAIN m0 |-> IsPos(m0[n])])
        m1 == IF cid = NoStr THEN m0
              ELSE IF g # 0 THEN [m0 EXCEPT ![g].Value = index]
              ELSE m0 \o <<PropMeta(NoStr, "group-position", Hash(cid), index)>>
    IN  SyncLegacy(m1, "calibre:series_index", index)

SetSeriesIndexEPUB2(meta, index) ==
    IF LegacyFound(meta, "calibre:series_index")
    THEN SyncLegacy(meta, "calibre:series_index", index)
    ELSE meta \o <<LegacyMeta("calibre:series_index", index)>>

\* func (pkg *Package) SetSeriesIndex(index string): the new Meta list
SetSeriesIndex(p, index) ==
    IF isEPUB3(p) THEN SetSeriesIndexEPUB3(p, index) ELSE SetSeriesIndexEPUB2(p.Meta, index)

\* the parse of one stored rating string, as GetRating does it
ParseRating(s) ==
    LET d == SscanfD(s)
        f == SscanfF(s)
    IN  IF d.ok THEN [ok |-> TRUE, v |-> GoDiv2(d.v)]
        ELSE IF f.ok THEN [ok |-> TRUE, v |-> GoDiv2(f.v)]
        ELSE [ok |-> FALSE, v |-> 0]

\* GetRating: entries in list order; per entry the property shape is tried
\* first (a non-blank Value that parses), then the name/content shape
RECURSIVE GetRatingFrom(_)
GetRatingFrom(meta) ==
    IF meta = <<>> THEN 0
    ELSE LET m == Head(meta)
             pv == ParseRating(m.Value)
             pc == ParseRating(m.Content)
         IN  IF m.Property = "calibre:rating" /\ TrimSpace(m.Value) # NoStr /\ pv.ok
             THEN pv.v
             ELSE IF m.Name = "calibre:rating" /\ pc.ok THEN pc.v
             ELSE GetRatingFrom(Tail(meta))

GetRating(p) == GetRatingFrom(p.Meta)

GetRatingRaw(p) ==
    LET meta == p.Meta
        Hit(m) == \/ (m.Property = "calibre:rating" /\ TrimSpace(m.Value) # NoStr)
                  \/ m.Name = "calibre:rating"
        i == FirstIdx(meta, [n \in DOMAIN meta |-> Hit(meta[n])])
    IN  IF i = 0 THEN NoStr
        ELSE IF meta[i].Property = "calibre:rating" /\ TrimSpace(meta[i].Value) # NoStr
        THEN meta[i].Value
        ELSE meta[i].Content

RatingLo == 0
RatingHi == 5

\* (mutant) the upper clamp is missing
ClampRatingNoUpper(rating) == IF rating < RatingLo THEN RatingLo ELSE rating

\* "Clamp to 0-5 range"
ClampRating(rating) ==
    IF rating < RatingLo THEN RatingLo ELSE IF rating > RatingHi THEN RatingHi ELSE rating

\* "Convert to Calibre's 0-10 scale"
CalibreRating(rating) == SprintfD(ClampRating(rating) * 2)

\* func (pkg *Package) SetRating(rating int): the new Meta list
SetRating(p, rating) ==
    LET meta == p.Meta
        cr == CalibreRating(rating)
        found == \E i \in DOMAIN meta :
                    meta[i].Name = "calibre:rating" \/ meta[i].Property = "calibre:rating"
        upd == [i \in DOMAIN meta |->
                  LET a == IF meta[i].Name = "calibre:rating"
                           THEN [meta[i] EXCEPT !.Content = cr] ELSE meta[i]
                  IN  IF a.Property = "calibre:rating" THEN [a EXCEPT !.Value = cr] ELSE a]
    IN  IF found THEN upd
        ELSE IF isEPUB3(p) THEN upd \o <<PropMeta(NoStr, "calibre:rating", NoStr, cr)>>
        ELSE upd \o <<LegacyMeta("calibre:rating", cr)>>

GetTitleSort(p) ==
    LET Leg(m) == m.Name = "calibre:title_sort"
        k == FirstIdx(p.Meta, [n \in DOMAIN p.Meta |-> Leg(p.Meta[n])])
    IN  IF k # 0 THEN p.Meta[k].Content ELSE NoStr

\* (mutant) an existing tag is left alone: a new tag is appended on EPUB2
SetTitleSortAppendOnly(p, sort) ==
    IF ~isEPUB3(p) THEN p.Meta \o <<LegacyMeta("calibre:title_sort", sort)>>
    ELSE p.Meta

\* (mutant) the tag is added whatever the declared version
SetTitleSortAlwaysAdd(p, sort) ==
    IF LegacyFound(p.Meta, "calibre:title_sort")
    THEN SyncLegacy(p.Meta, "calibre:title_sort", sort)
    ELSE p.Meta \o <<LegacyMeta("calibre:title_sort", sort)>>

\* func (pkg *Package) SetTitleSort(sort string): the new Meta list
SetTitleSort(p, sort) ==
    IF LegacyFound(p.Meta, "calibre:title_sort")
    THEN SyncLegacy(p.Meta, "calibre:title_sort", sort)
    ELSE IF ~isEPUB3(p) THEN p.Meta \o <<LegacyMeta("calibre:title_sort", sort)>>
    ELSE p.Meta

\* func (pkg *Package) SetTitle(title string)
SetTitle(p, title) == [p EXCEPT !.Titles = <<title>>]

(***************************************************************************)
(* Containers: entries, the zip writer and the filesystem of writer.go     *)
(***************************************************************************)
\* zip.Store, zip.Deflate
Store == 0
Deflate == 8

\* entry names are paths: the sequence of their "/"-separated segments; a
\* name ending in "/" has an empty last segment
MimetypeName == <<"mimetype">>
ContainerName == <<"META-INF", "container.xml">>
OpfName == <<"OEBPS", "content.opf">>
ChapterName == <<"OEBPS", "chapter1.xhtml">>
ImagesDirName == <<"OEBPS", "images", "">>
OddDirName == <<"OEBPS", "odd">>
CoverName == <<"OEBPS", "cover.jpg">>

\* strings.HasSuffix(name, "/")
HasSlashSuffix(name) == name # <<>> /\ name[Len(name)] = ""

\* []byte("application/epub+zip")
MimeBytes ==
    <<"a", "p", "p", "l", "i", "c", "a", "t", "i", "o", "n", "/",
      "e", "p", "u", "b", "+", "z", "i", "p">>

\* the compressed form of content under a method, and its inverse
Compress(method, content) ==
    IF method = Store THEN content ELSE <<"deflate-stream">> \o content

Decompress(method, data) == IF method = Store THEN data ELSE Tail(data)

Crc32(content) == <<"crc32">> \o content

\* what zip.Writer.CreateHeader + Write put in the archive for (name, method,
\* content); a name ending in "/" is a directory: its method is forced to
\* Store and writing a non-empty content to it fails ("zip: write to directory")
FreshOk(name, content) == ~HasSlashSuffix(name) \/ content = <<>>

FreshEntry(name, method, content) ==
    LET m == IF HasSlashSuffix(name) THEN Store ELSE method
    IN  [name |-> name, method |-> m, isdir |-> HasSlashSuffix(name),
         usize |-> Len(content), crc |-> Crc32(content),
         csize |-> Len(Compress(m, content)), data |-> Compress(m, content)]

\* (mutant) fresh entries get the default method
writeContentDeflate(name, content, method) == FreshEntry(name, Deflate, content)

\* func writeContentWithMethod(w, name, content, method)
writeContentWithMethod(name, content, method) == FreshEntry(name, method, content)

\* (mutant) the mimetype entry is written like any other entry
writeMimetypeDeflated == FreshEntry(MimetypeName, Deflate, MimeBytes)

\* func writeMimetype(w)
writeMimetype == FreshEntry(MimetypeName, Store, MimeBytes)

\* (mutant) only the name tells a directory entry
IsDirEntryByName(f) == HasSlashSuffix(f.name)

\* f.FileInfo().IsDir() || strings.HasSuffix(name, "/")
IsDirEntry(f) == f.isdir \/ HasSlashSuffix(f.name)

\* (mutant) the entry is decoded and written again with the default method
copyZipFileRecompress(f, src) ==
    FreshEntry(f.name, Deflate, Decompress(f.method, src.entries[f.off].data))

\* func copyZipFile(r, f, w): CreateRaw with f's header, then the
\* CompressedSize64 bytes at f.DataOffset() of r.file
copyZipFile(f, src) ==
    [name |-> f.name, method |-> f.method, isdir |-> f.isdir,
     usize |-> f.usize, crc |-> f.crc, csize |-> f.csize,
     data |-> src.entries[f.off].data]

\* an entry as some other tool stored it in a source archive
SrcEntry(name, method, dirmode, content) ==
    [name |-> name, method |-> method, isdir |-> dirmode \/ HasSlashSuffix(name),
     usize |-> Len(content), crc |-> Crc32(content),
     csize |-> Len(Compress(method, content)), data |-> Compress(method, content)]

\* zip.NewReader: the Container Index, one header per entry with its offset
IndexOf(entries) ==
    [k \in DOMAIN entries |->
        [name |-> entries[k].name, method |-> entries[k].method,
         isdir |-> entries[k].isdir, usize |-> entries[k].usize,
         crc |-> entries[k].crc, csize |-> entries[k].csize, off |-> k]]

\* files: the entries written so far and whether the central directory is there
MkFile(entries, complete) == [entries |-> entries, complete |-> complete]
EmptyFile == MkFile(<<>>, FALSE)

\* the namespace: dir maps a path to an inode number (0: no such file), ino
\* holds the inodes; open handles name inodes, not paths
Paths == {"book.epub", "other.epub", "out.epub", "golibri-save-1.epub", "golibri-save-2.epub"}
TempNames == {"golibri-save-1.epub", "golibri-save-2.epub"}
EmptyFS == [dir |-> [p \in Paths |-> 0], ino |-> <<>>]

\* the lowest inode number not in use
NewInode(fsys) ==
    CHOOSE n \in 1..(Cardinality(DOMAIN fsys.ino) + 1) :
        /\ n \notin DOMAIN fsys.ino
        /\ \A m \in 1..(n - 1) : m \in DOMAIN fsys.ino

Exists(fsys, path) == fsys.dir[path] # 0
FileAt(fsys, path) == fsys.ino[fsys.dir[path]]

\* (mutant) a fixed temporary name beside the destination
TempCandidatesFixed(fsys) == {"golibri-save-1.epub"}

\* os.CreateTemp(tempDir, "golibri-save-*.epub"): a name that does not exist
TempCandidates(fsys) == {n \in TempNames : ~Exists(fsys, n)}

\* open(O_CREATE|O_TRUNC) on a name: a new empty inode, or the truncated
\* inode the name already has
CreateFile(fsys, name) ==
    IF Exists(fsys, name)
    THEN [fsys EXCEPT !.ino[fsys.dir[name]] = EmptyFile]
    ELSE [dir |-> [fsys.dir EXCEPT ![name] = NewInode(fsys)],
          ino |-> [n \in DOMAIN fsys.ino \cup {NewInode(fsys)} |->
                      IF n \in DOMAIN fsys.ino THEN fsys.ino[n] ELSE EmptyFile]]

\* a write through an open handle
WriteEntry(fsys, inode, e) == [fsys EXCEPT !.ino[inode].entries = Append(@, e)]

\* an inode lives while a name or an open handle refers to it
Reclaim(fsys, open) ==
    [fsys EXCEPT !.ino =
        [n \in {m \in DOMAIN fsys.ino :
                    m \in open \/ \E q \in Paths : fsys.dir[q] = m} |-> fsys.ino[n]]]

\* zip.Writer.Close: flush and write the central directory
FinishFile(fsys, inode) == [fsys EXCEPT !.ino[inode].complete = TRUE]

\* (mutant) the new content is written into the file the destination names
RenameOverwrite(fsys, old, new) ==
    IF Exists(fsys, new)
    THEN [fsys EXCEPT !.ino[fsys.dir[new]] = fsys.ino[fsys.dir[old]], !.dir[old] = 0]
    ELSE [fsys EXCEPT !.dir = [fsys.dir EXCEPT ![new] = fsys.dir[old], ![old] = 0]]

\* os.Rename(old, new) when old exists
Rename(fsys, old, new) ==
    [fsys EXCEPT !.dir = [fsys.dir EXCEPT ![new] = fsys.dir[old], ![old] = 0]]

\* os.Remove(path); its error is ignored
Remove(fsys, path) == [fsys EXCEPT !.dir[path] = 0]

\* (mutant) nothing is removed when Save returns an error
DeferredKeep(fsys, path, success) == fsys

\* Save's deferred function: tmpF.Close(); if !success { os.Remove(tmpPath) }
Deferred(fsys, path, success) == IF success THEN fsys ELSE Remove(fsys, path)

\* encoding: the package document Save writes (xml.Header + MarshalIndent)
MarshalMeta(m) ==
    "<meta id='" \o Str(m.ID) \o "' name='" \o m.Name \o "' content='" \o Str(m.Content)
    \o "' property='" \o m.Property \o "' refines='" \o Str(m.Refines) \o "'>"
    \o Str(m.Value) \o "</meta>"

MarshalIndent(p) ==
    <<"<package version='" \o Str(p.Version) \o "'>">>
    \o [k \in DOMAIN p.Titles |-> "<dc:title>" \o p.Titles[k] \o "</dc:title>"]
    \o [k \in DOMAIN p.Meta |-> MarshalMeta(p.Meta[k])]
    \o <<"</package>">>

XmlHeader == <<"<?xml version='1.0' encoding='UTF-8'?>">>

OpfContent(p) == XmlHeader \o MarshalIndent(p)

(***************************************************************************)
(* Packages the metadata accessors are exercised on                        *)
(***************************************************************************)
V20 == <<"2", ".", "0">>
V30 == <<"3", ".", "0">>
V31sp == <<" ", "3", ".", "1">>
Versions == {V20, V30}
\* a padded 3.x declaration and a missing one
EdgeVersions == {V31sp, NoStr}

StrA == <<"A">>
StrB == <<"B">>
C01 == <<"c", "0", "1">>
C02 == <<"c", "0", "2">>

LegS(v) == LegacyMeta("calibre:series", v)
LegI(v) == LegacyMeta("calibre:series_index", v)
LegR(v) == LegacyMeta("calibre:rating", v)
LegT(v) == LegacyMeta("calibre:title_sort", v)
PropR(v) == PropMeta(NoStr, "calibre:rating", NoStr, v)
Coll(id, v) == PropMeta(id, "belongs-to-collection", NoStr, v)
CType(id, v) == PropMeta(NoStr, "collection-type", Hash(id), v)
GPos(id, v) == PropMeta(NoStr, "group-position", Hash(id), v)

\* single entries a package document may carry
MetaPool ==
    { LegS(StrA), LegS(NoStr), LegI(<<"1">>), LegT(<<"T">>),
      LegR(<<"8">>), LegR(<<"8", ".", "0">>), LegR(<<"x">>),
      PropR(<<"1", "0">>), PropR(<<" ">>),
      Coll(C01, StrA), Coll(NoStr, StrA), CType(C01, SeriesStr),
      MkMeta(C01, "cover", <<"i">>, "", NoStr, NoStr) }

\* documents with several entries: complete and partial collection structures,
\* legacy tags beside them, duplicated tags and ids
MetaDocs ==
    { <<>>,
      <<LegS(NoStr), LegS(StrA)>>,
      <<LegS(StrA), LegI(<<"1">>)>>,
      <<PropR(<<"1", "0">>), LegR(<<"1", "0">>)>>,
      <<LegR(<<"8">>), PropR(<<" ">>)>>,
      <<PropR(<<"x">>), LegR(<<".", "5">>), PropR(<<"4">>)>>,
      <<Coll(C01, StrA), CType(C01, SeriesStr), GPos(C01, <<"1">>)>>,
      <<Coll(C01, StrA), CType(C01, <<"s", "e", "t">>), CType(C01, <<" ">> \o SeriesStr)>>,
      <<Coll(C01, StrA), CType(C01, <<"s", "e", "t">>)>>,
      <<Coll(C01, StrA), CType(C01, SeriesStr), Coll(C02, StrB), CType(C02, SeriesStr)>>,
      <<Coll(C02, StrB), CType(C01, SeriesStr), Coll(C01, StrA)>>,
      <<Coll(NoStr, StrA), CType(NoStr, SeriesStr)>>,
      <<Coll(C01, NoStr), CType(C01, SeriesStr), LegS(StrA)>>,
      <<Coll(C01, StrA), Coll(C01, StrB), CType(C01, SeriesStr)>>,
      <<LegS(StrA), Coll(C01, StrB), CType(C01, SeriesStr), LegI(<<"1">>),
        GPos(C01, <<"2">>), LegR(<<"8">>), LegT(<<"T">>)>> }

InitMetaLists == MetaDocs \cup {<<m>> : m \in MetaPool}

\* the documents the edge versions are tried on
EdgeDocs ==
    { <<>>,
      <<LegS(StrA), LegI(<<"1">>)>>,
      <<PropR(<<"1", "0">>), LegR(<<"1", "0">>)>>,
      <<Coll(C01, StrA), CType(C01, SeriesStr), GPos(C01, <<"1">>)>>,
      <<LegT(<<"T">>)>> }

InitPackages ==
    {[Version |-> v, Titles |-> <<"Old Title">>, Meta |-> ml] :
        v \in Versions, ml \in InitMetaLists}
    \cup
    {[Version |-> v, Titles |-> <<"Old Title">>, Meta |-> ml] :
        v \in EdgeVersions, ml \in EdgeDocs}

SeriesArgs == {NoStr, StrA, StrB}
IndexArgs == {<<"1">>, <<"2">>}
TitleSortArgs == {<<"T">>, <<"U">>}
RatingArgMin == -10
RatingArgMax == 15
RatingArgs == RatingArgMin..RatingArgMax
TitleArgs == {"Old Title", "New Title"}

MaxCalls == 3

\* the public rating scale: what a caller who passed r expects to read back
Clamp05(r) == IF r < 0 THEN 0 ELSE IF r > 5 THEN 5 ELSE r

NotSet == [set |-> FALSE, v |-> NoStr]
Written(v) == [set |-> TRUE, v |-> v]

HistInit(metas) ==
    [calls |-> 0, op |-> "none", rep |-> FALSE, init |-> metas,
     series |-> NotSet, index |-> NotSet, rating |-> NotSet, title |-> NotSet,
     outs |-> {}, last |-> EmptyFile, overlap |-> FALSE, prior |-> <<>>,
     arg |-> NoStr, ret |-> NoStr, before |-> <<>>]

\* a setter may run on package i when no Save of its Reader is under way
CanCall(i) ==
    /\ i \in DOMAIN pkg
    /\ hist.calls < MaxCalls
    /\ (i \in DOMAIN sv => sv[i].pc \in {"idle", "returned"})

CallSetSeries(i, s) ==
    /\ CanCall(i)
    /\ pkg' = [pkg EXCEPT ![i].Meta = SetSeries(pkg[i], s)]
    /\ hist' = [hist EXCEPT !.calls = @ + 1, !.op = "SetSeries", !.series = Written(s),
                            !.rep = (hist.op = "SetSeries" /\ hist.series = Written(s))]
    /\ UNCHANGED <<fs, rdr, sv>>

CallSetSeriesIndex(i, x) ==
    /\ CanCall(i)
    /\ pkg' = [pkg EXCEPT ![i].Meta = SetSeriesIndex(pkg[i], x)]
    /\ hist' = [hist EXCEPT !.calls = @ + 1, !.op = "SetSeriesIndex", !.index = Written(x),
                            !.rep = (hist.op = "SetSeriesIndex" /\ hist.index = Written(x))]
    /\ UNCHANGED <<fs, rdr, sv>>

CallSetRating(i, r) ==
    /\ CanCall(i)
    /\ pkg' = [pkg EXCEPT ![i].Meta = SetRating(pkg[i], r)]
    /\ hist' = [hist EXCEPT !.calls = @ + 1, !.op = "SetRating",
                            !.rating = Written(Clamp05(r)),
                            !.rep = (hist.op = "SetRating" /\ hist.rating = Written(Clamp05(r)))]
    /\ UNCHANGED <<fs, rdr, sv>>

CallSetTitleSort(i, s) ==
    /\ CanCall(i)
    /\ pkg' = [pkg EXCEPT ![i].Meta = SetTitleSort(pkg[i], s)]
    /\ hist' = [hist EXCEPT !.calls = @ + 1, !.op = "SetTitleSort", !.title = Written(s),
                            !.rep = (hist.op = "SetTitleSort" /\ hist.title = Written(s))]
    /\ UNCHANGED <<fs, rdr, sv>>

\* a Package built in memory, as the unit tests build it: no Reader, no file
InitMeta ==
    /\ fs = EmptyFS
    /\ rdr = <<>>
    /\ sv = <<>>
    /\ \E p \in InitPackages :
          /\ pkg = <<p>>
          /\ hist = HistInit(p.Meta)

NextMeta ==
    \/ \E i \in DOMAIN pkg, s \in SeriesArgs : CallSetSeries(i, s)
    \/ \E i \in DOMAIN pkg, x \in IndexArgs : CallSetSeriesIndex(i, x)
    \/ \E i \in DOMAIN pkg, r \in RatingArgs : CallSetRating(i, r)
    \/ \E i \in DOMAIN pkg, s \in TitleSortArgs : CallSetTitleSort(i, s)

SpecMeta == InitMeta /\ [][NextMeta]_vars

(***************************************************************************)
(* Reader.Save (writer.go), one action per step of the function            *)
(***************************************************************************)
MaxSaves == 1

\* source archives, as Open accepted them (container.xml and the package
\* document are there)
ArchPlain ==
    <<SrcEntry(MimetypeName, Store, FALSE, MimeBytes),
      SrcEntry(ContainerName, Deflate, FALSE, <<"container">>),
      SrcEntry(OpfName, Deflate, FALSE, <<"opf-on-disk">>),
      SrcEntry(ImagesDirName, Store, TRUE, <<>>),
      SrcEntry(ChapterName, Store, FALSE, <<"chapter">>)>>

ArchMimeLate ==
    <<SrcEntry(ContainerName, Deflate, FALSE, <<"container">>),
      SrcEntry(MimetypeName, Deflate, FALSE, MimeBytes),
      SrcEntry(OpfName, Store, FALSE, <<"opf-on-disk">>),
      SrcEntry(OddDirName, Store, TRUE, <<>>),
      SrcEntry(ChapterName, Deflate, FALSE, <<"chapter">>)>>

ArchNoMime ==
    <<SrcEntry(ContainerName, Store, FALSE, <<"container">>),
      SrcEntry(OpfName, Deflate, FALSE, <<"opf-on-disk">>),
      SrcEntry(ChapterName, Deflate, FALSE, <<"chapter">>),
      SrcEntry(ChapterName, Store, FALSE, <<"chapter-again">>),
      SrcEntry(ImagesDirName, Deflate, TRUE, <<>>)>>

Archives == {ArchPlain, ArchMimeLate, ArchNoMime}

\* what an earlier run left at the destination
OldOut == MkFile(<<SrcEntry(MimetypeName, Store, FALSE, MimeBytes)>>, TRUE)

\* Replacement Maps: at most MaxRepl paths, each with empty or non-empty bytes
MaxRepl == 2
ReplPaths == {MimetypeName, OpfName, ChapterName, CoverName, ImagesDirName, OddDirName}
ReplBytes == {<<>>, <<"replacement">>}
ReplChoices ==
    UNION {[S -> ReplBytes] : S \in {X \in SUBSET ReplPaths : Cardinality(X) <= MaxRepl}}

\* func Open(path): the Reader over an open file
OpenReader(fsys, path, repl) ==
    [path |-> path, file |-> fsys.dir[path], open |-> TRUE,
     File |-> IndexOf(FileAt(fsys, path).entries),
     OpfPath |-> OpfName, Replacements |-> repl]

IdleFrame ==
    [pc |-> "idle", n |-> 0, out |-> "", tmpPath |-> "", tmpF |-> 0, w |-> <<>>,
     k |-> 0, seen |-> {}, opfContent |-> <<>>, writtenFiles |-> {},
     success |-> FALSE, err |-> FALSE, before |-> <<>>]

\* the file a path names, if any (kept by Save's caller to compare later)
StateAt(fsys, path) == IF Exists(fsys, path) THEN <<FileAt(fsys, path)>> ELSE <<>>

Writing == {"mimetype", "copy", "new", "close", "rename"}

\* the inodes open handles refer to, the temporary file of Save i left out
OpenInodes(i) ==
    {rdr[j].file : j \in {m \in DOMAIN rdr : rdr[m].open}}
    \cup {sv[j].tmpF : j \in {m \in DOMAIN sv : m # i /\ sv[m].pc \in Writing}}

\* Save returns: its locals are gone, the caller holds the error value
Returned(frame, success) ==
    [IdleFrame EXCEPT !.pc = "returned", !.n = frame.n, !.out = frame.out,
                      !.tmpPath = frame.tmpPath, !.before = frame.before,
                      !.success = success, !.err = ~success]

\* an error return after the defer statement: the deferred function runs
Fail(i) ==
    /\ sv' = [sv EXCEPT ![i] = Returned(sv[i], FALSE)]
    /\ fs' = Reclaim(Deferred(fs, sv[i].tmpPath, FALSE), OpenInodes(i))

\* 1. os.CreateTemp, tmpPath, the defer statement, zip.NewWriter
SaveCreateTempWithin(i, out, ok, limit) ==
    /\ sv[i].pc \in {"idle", "returned"}
    /\ sv[i].n < limit
    /\ LET frame == [IdleFrame EXCEPT !.n = sv[i].n + 1, !.out = out,
                                      !.before = StateAt(fs, out)]
       IN  IF ok
           THEN \E name \in TempCandidates(fs) :
                  /\ fs' = CreateFile(fs, name)
                  /\ sv' = [sv EXCEPT ![i] = [frame EXCEPT !.pc = "mimetype",
                                                !.tmpPath = name,
                                                !.tmpF = CreateFile(fs, name).dir[name]]]
                  /\ hist' = [hist EXCEPT !.overlap =
                                 @ \/ \E j \in DOMAIN sv : j # i /\ sv[j].pc \in Writing]
           ELSE /\ sv' = [sv EXCEPT ![i] = Returned(frame, FALSE)]
                /\ UNCHANGED <<fs, hist>>
    /\ UNCHANGED <<rdr, pkg>>

SaveCreateTemp(i, out, ok) == SaveCreateTempWithin(i, out, ok, MaxSaves)

\* 3.-4. writeMimetype, then the serialized package document and writtenFiles
SaveWriteMimetype(i, ok) ==
    /\ sv[i].pc = "mimetype"
    /\ IF ok
       THEN /\ fs' = WriteEntry(fs, sv[i].tmpF, writeMimetype)
            /\ sv' = [sv EXCEPT ![i].w = Append(@, writeMimetype),
                                ![i].opfContent = OpfContent(pkg[i]),
                                ![i].writtenFiles = {MimetypeName},
                                ![i].k = 1,
                                ![i].pc = IF rdr[i].File = <<>> THEN "new" ELSE "copy"]
       ELSE Fail(i)
    /\ UNCHANGED <<rdr, pkg, hist>>

\* (mutant) the raw bytes can be read whether or not the Reader was closed
SourceReadableAlways(i, f) == TRUE

\* copyZipFile reads the local header (f.DataOffset) and the compressed bytes
\* (io.Copy from the section of r.file) through the Reader's file handle:
\* both fail once Close has closed it
SourceReadable(i, f) == rdr[i].open

\* the entries loop 5 hands to copyZipFile
RawCopied(i, f) ==
    f.name # rdr[i].OpfPath /\ f.name \notin DOMAIN rdr[i].Replacements

\* what one iteration of loop 5 writes for index entry f
CopyChoice(i, f) ==
    IF f.name = rdr[i].OpfPath
    THEN writeContentWithMethod(f.name, sv[i].opfContent, f.method)
    ELSE IF f.name \in DOMAIN rdr[i].Replacements
         THEN writeContentWithMethod(f.name, rdr[i].Replacements[f.name], f.method)
         ELSE copyZipFile(f, fs.ino[rdr[i].file])

\* 5. one iteration of the loop over r.zipReader.File
SaveCopyStep(i, ok) ==
    /\ sv[i].pc = "copy"
    /\ LET f == rdr[i].File[sv[i].k]
           nextpc == IF sv[i].k = Len(rdr[i].File) THEN "new" ELSE "copy"
       IN  IF f.name = MimetypeName \/ IsDirEntry(f)
           THEN /\ ok
                /\ sv' = [sv EXCEPT ![i].k = @ + 1, ![i].pc = nextpc]
                /\ UNCHANGED fs
           ELSE IF ok /\ (RawCopied(i, f) => SourceReadable(i, f))
                THEN /\ fs' = WriteEntry(fs, sv[i].tmpF, CopyChoice(i, f))
                     /\ sv' = [sv EXCEPT ![i].w = Append(@, CopyChoice(i, f)),
                                         ![i].writtenFiles = @ \cup {f.name},
                                         ![i].k = @ + 1, ![i].pc = nextpc]
                ELSE Fail(i)
    /\ UNCHANGED <<rdr, pkg, hist>>

\* originalFiles[path]: the last index entry of that name
OriginalMethod(index, path) ==
    LET hits == {k \in DOMAIN index : index[k].name = path}
    IN  IF hits = {} THEN Deflate
        ELSE index[CHOOSE k \in hits : \A j \in hits : j <= k].method

\* 6. one iteration of the loop over r.Replacements (map order: any path)
SaveNewStep(i, path, ok) ==
    /\ sv[i].pc = "new"
    /\ path \in DOMAIN rdr[i].Replacements \ sv[i].seen
    /\ LET content == rdr[i].Replacements[path]
           e == writeContentWithMethod(path, content, OriginalMethod(rdr[i].File, path))
       IN  IF path \in sv[i].writtenFiles
           THEN /\ ok
                /\ sv' = [sv EXCEPT ![i].seen = @ \cup {path}]
                /\ UNCHANGED fs
           ELSE IF ok /\ FreshOk(path, content)
                THEN /\ fs' = WriteEntry(fs, sv[i].tmpF, e)
                     /\ sv' = [sv EXCEPT ![i].w = Append(@, e),
                                         ![i].writtenFiles = @ \cup {path},
                                         ![i].seen = @ \cup {path}]
                ELSE Fail(i)
    /\ UNCHANGED <<rdr, pkg, hist>>

\* 7. w.Close(), tmpF.Close()
SaveClose(i, ok) ==
    /\ sv[i].pc = "new"
    /\ DOMAIN rdr[i].Replacements \subseteq sv[i].seen
    /\ IF ok
       THEN /\ fs' = FinishFile(fs, sv[i].tmpF)
            /\ sv' = [sv EXCEPT ![i].pc = "rename"]
       ELSE Fail(i)
    /\ UNCHANGED <<rdr, pkg, hist>>

\* 8. os.Rename(tmpPath, outputPath); success = true; return nil
SaveRename(i, ok) ==
    /\ sv[i].pc = "rename"
    /\ IF ok /\ Exists(fs, sv[i].tmpPath)
       THEN /\ fs' = Reclaim(Deferred(Rename(fs, sv[i].tmpPath, sv[i].out),
                                      sv[i].tmpPath, TRUE), OpenInodes(i))
            /\ sv' = [sv EXCEPT ![i] = Returned(sv[i], TRUE)]
            /\ hist' = [hist EXCEPT !.outs = @ \cup {MkFile(sv[i].w, TRUE)},
                                    !.last = MkFile(sv[i].w, TRUE)]
       ELSE Fail(i) /\ UNCHANGED hist
    /\ UNCHANGED <<rdr, pkg>>

\* func (pkg *Package) SetTitle(title), between Saves
CallSetTitle(i, title) ==
    /\ sv[i].pc \in {"idle", "returned"}
    /\ pkg' = [pkg EXCEPT ![i] = SetTitle(pkg[i], title)]
    /\ UNCHANGED <<fs, rdr, sv, hist>>

SavePackage == [Version |-> V30, Titles |-> <<"Old Title">>, Meta |-> <<LegT(<<"T">>)>>]
OtherPackage == [Version |-> V20, Titles |-> <<"Other Title">>, Meta |-> <<>>]

\* one Reader opened on book.epub; out.epub is absent or left by an earlier run
InitSave ==
    \E arch \in Archives, repl \in ReplChoices, old \in BOOLEAN :
        /\ fs = [dir |-> [p \in Paths |->
                            IF p = "book.epub" THEN 1
                            ELSE IF p = "out.epub" /\ old THEN 2 ELSE 0],
                 ino |-> IF old THEN <<MkFile(arch, TRUE), OldOut>>
                         ELSE <<MkFile(arch, TRUE)>>]
        /\ rdr = <<OpenReader(fs, "book.epub", repl)>>
        /\ pkg = <<SavePackage>>
        /\ sv = <<IdleFrame>>
        /\ hist = [HistInit(SavePackage.Meta) EXCEPT !.prior = StateAt(fs, "out.epub")]

SaveDests == {"out.epub", "book.epub"}

NextSave ==
    \/ \E i \in DOMAIN sv, out \in SaveDests, ok \in BOOLEAN : SaveCreateTemp(i, out, ok)
    \/ \E i \in DOMAIN sv, ok \in BOOLEAN : SaveWriteMimetype(i, ok)
    \/ \E i \in DOMAIN sv, ok \in BOOLEAN : SaveCopyStep(i, ok)
    \/ \E i \in DOMAIN sv, path \in ReplPaths, ok \in BOOLEAN : SaveNewStep(i, path, ok)
    \/ \E i \in DOMAIN sv, ok \in BOOLEAN : SaveClose(i, ok)
    \/ \E i \in DOMAIN sv, ok \in BOOLEAN : SaveRename(i, ok)
    \/ \E i \in DOMAIN pkg, title \in TitleArgs : CallSetTitle(i, title)

SpecSave == InitSave /\ [][NextSave]_vars

\* two Readers, on book.epub and other.epub, whose Saves to out.epub interleave
ConcRepl == {f \in ReplChoices : DOMAIN f \subseteq {CoverName}}

InitConc ==
    \E repl \in ConcRepl, old \in BOOLEAN :
        /\ fs = [dir |-> [p \in Paths |->
                            IF p = "book.epub" THEN 1
                            ELSE IF p = "other.epub" THEN 2
                            ELSE IF p = "out.epub" /\ old THEN 3 ELSE 0],
                 ino |-> IF old THEN <<MkFile(ArchPlain, TRUE), MkFile(ArchNoMime, TRUE), OldOut>>
                         ELSE <<MkFile(ArchPlain, TRUE), MkFile(ArchNoMime, TRUE)>>]
        /\ rdr = <<OpenReader(fs, "book.epub", repl), OpenReader(fs, "other.epub", repl)>>
        /\ pkg = <<SavePackage, OtherPackage>>
        /\ sv = <<IdleFrame, IdleFrame>>
        /\ hist = [HistInit(<<>>) EXCEPT !.prior = StateAt(fs, "out.epub")]

NextConc ==
    \/ \E i \in DOMAIN sv, ok \in BOOLEAN : SaveCreateTemp(i, "out.epub", ok)
    \/ \E i \in DOMAIN sv, ok \in BOOLEAN : SaveWriteMimetype(i, ok)
    \/ \E i \in DOMAIN sv, ok \in BOOLEAN : SaveCopyStep(i, ok)
    \/ \E i \in DOMAIN sv, path \in ReplPaths, ok \in BOOLEAN : SaveNewStep(i, path, ok)
    \/ \E i \in DOMAIN sv, ok \in BOOLEAN : SaveClose(i, ok)
    \/ \E i \in DOMAIN sv, ok \in BOOLEAN : SaveRename(i, ok)

SpecConc == InitConc /\ [][NextConc]_vars

(***************************************************************************)
(* Claims about Save (checked under SpecSave and SpecConc)                 *)
(***************************************************************************)
Succeeded(i) == sv[i].pc = "returned" /\ sv[i].success
Failed(i) == sv[i].pc = "returned" /\ sv[i].err
Output(i) == FileAt(fs, sv[i].out).entries
Original(i) == fs.ino[rdr[i].file].entries
Names(entries) == [k \in DOMAIN entries |-> entries[k].name]
IsDirectoryOnly(e) == e.isdir \/ HasSlashSuffix(e.name)

\* C1: the first entry of the container a successful Save produced is named
\* mimetype, is stored uncompressed and holds exactly the 20 bytes
\* "application/epub+zip", wherever the source has its mimetype entry (or has
\* none) and whatever the Replacement Map holds, a mimetype path included.
C1_MimetypeFirst ==
    \A i \in DOMAIN sv :
        Succeeded(i) =>
            /\ FileAt(fs, sv[i].out).complete
            /\ Output(i) # <<>>
            /\ Output(i)[1].name = MimetypeName
            /\ Output(i)[1].method = Store
            /\ Output(i)[1].data = MimeBytes
            /\ Output(i)[1].usize = 20
            /\ Output(i)[1].csize = 20

\* a Save succeeded on a source whose first entry is not mimetype, with a
\* non-empty replacement registered for the mimetype path
C1_Witness ==
    /\ Succeeded(1)
    /\ Original(1)[1].name # MimetypeName
    /\ MimetypeName \in DOMAIN rdr[1].Replacements
    /\ rdr[1].Replacements[MimetypeName] # <<>>
    /\ pkg[1].Titles = <<"New Title">>

\* C2: every entry of the original that is not mimetype, not a directory
\* entry, not the package document and not a Replacement Map path is in the
\* output with the same name, method, compressed size, uncompressed size, CRC
\* and compressed payload.
C2_RawCopyIdentical ==
    \A i \in DOMAIN sv :
        Succeeded(i) =>
            \A k \in DOMAIN Original(i) :
                LET e == Original(i)[k]
                IN  (/\ e.name # MimetypeName
                     /\ ~IsDirectoryOnly(e)
                     /\ e.name # rdr[i].OpfPath
                     /\ e.name \notin DOMAIN rdr[i].Replacements)
                    => \E j \in DOMAIN Output(i) :
                          /\ Output(i)[j].name = e.name
                          /\ Output(i)[j].method = e.method
                          /\ Output(i)[j].csize = e.csize
                          /\ Output(i)[j].usize = e.usize
                          /\ Output(i)[j].crc = e.crc
                          /\ Output(i)[j].data = e.data

\* a Save succeeded after a title edit on a source with an untouched stored
\* entry and an untouched deflated entry
C2_Witness ==
    /\ Succeeded(1)
    /\ pkg[1].Titles = <<"New Title">>
    /\ DOMAIN rdr[1].Replacements = {CoverName}
    /\ \E k \in DOMAIN Original(1) :
          Original(1)[k].name = ChapterName /\ Original(1)[k].method = Store
    /\ \E k \in DOMAIN Original(1) :
          Original(1)[k].name = ContainerName /\ Original(1)[k].method = Deflate

\* C3: when Save returned an error, whichever step failed, the destination
\* path holds exactly what it held when Save was called and the temporary
\* file is gone.
C3_FailureLeavesNoTrace ==
    \A i \in DOMAIN sv :
        Failed(i) =>
            /\ ~sv[i].success
            /\ StateAt(fs, sv[i].out) = sv[i].before
            /\ sv[i].tmpPath # "" => ~Exists(fs, sv[i].tmpPath)
            /\ \A n \in TempNames : ~Exists(fs, n)

\* a Save failed after its temporary file was created, over a destination
\* that existed
C3_Witness ==
    /\ Failed(1)
    /\ sv[1].tmpPath \in TempNames
    /\ sv[1].before # <<>>
    /\ ~Exists(fs, sv[1].tmpPath)

\* C4: with two Readers saving to the same destination, in every
\* interleaving the destination holds its prior content until a rename and
\* from then on the complete container written by the Save that renamed
\* last, and two Saves in progress never share a temporary file.
C4_ConcurrentSaves ==
    /\ StateAt(fs, "out.epub") = IF hist.outs = {} THEN hist.prior ELSE <<hist.last>>
    /\ \A i, j \in DOMAIN sv :
          (i # j /\ sv[i].pc \in Writing /\ sv[j].pc \in Writing)
          => /\ sv[i].tmpPath # sv[j].tmpPath
             /\ sv[i].tmpF # sv[j].tmpF

\* both Saves ran at the same time, both returned successfully and they
\* wrote different containers
C4_Witness ==
    /\ hist.overlap
    /\ Succeeded(1) /\ Succeeded(2)
    /\ Cardinality(hist.outs) = 2
    /\ hist.prior # <<>>

\* the names a successful Save's output has: mimetype, the original names
\* without mimetype and directory entries, then the appended paths
OrderLaw(i, appended) ==
    LET out == Names(Output(i))
        kept == Names(SelectSeq(Original(i),
                        LAMBDA e : e.name # MimetypeName /\ ~IsDirectoryOnly(e)))
        n == 1 + Len(kept)
    IN  /\ Len(out) = n + Cardinality(appended)
        /\ SubSeq(out, 1, n) = <<MimetypeName>> \o kept
        /\ {out[k] : k \in (n + 1)..Len(out)} = appended

\* C5 as stated: the appended names are the Replacement Map paths absent
\* from the original archive.
C5_Original ==
    \A i \in DOMAIN sv :
        Succeeded(i) =>
            OrderLaw(i, {p \in DOMAIN rdr[i].Replacements :
                            \A k \in DOMAIN Original(i) : Original(i)[k].name # p})

\* C5: the output names are mimetype, then the original names in index order
\* without mimetype and directory entries, then every Replacement Map path
\* other than mimetype that names no non-directory entry of the original.
C5_OutputOrder ==
    \A i \in DOMAIN sv :
        Succeeded(i) =>
            OrderLaw(i, {p \in DOMAIN rdr[i].Replacements :
                            /\ p # MimetypeName
                            /\ \A k \in DOMAIN Original(i) :
                                  Original(i)[k].name = p => IsDirectoryOnly(Original(i)[k])})

\* a Save succeeded with replacements for a new path and for a path the
\* original has as a directory entry
C5_Witness ==
    /\ Succeeded(1)
    /\ DOMAIN rdr[1].Replacements = {CoverName, ImagesDirName}
    /\ \E k \in DOMAIN Original(1) : Original(1)[k].name = ImagesDirName
    /\ pkg[1].Titles = <<"New Title">>

\* C6: for every Replacement Map path (the mimetype path, which C1 settles,
\* left aside) the output has an entry of that name and every such entry
\* holds exactly the replacement bytes, also when the path is the package
\* document's.
C6_ReplacementWins ==
    \A i \in DOMAIN sv :
        Succeeded(i) =>
            \A p \in DOMAIN rdr[i].Replacements \ {MimetypeName} :
                /\ \E k \in DOMAIN Output(i) : Output(i)[k].name = p
                /\ \A k \in DOMAIN Output(i) :
                      Output(i)[k].name = p =>
                          /\ Decompress(Output(i)[k].method, Output(i)[k].data)
                                = rdr[i].Replacements[p]
                          /\ Output(i)[k].usize = Len(rdr[i].Replacements[p])

(***************************************************************************)
(* Claims about the metadata reconciliation layer (checked under SpecMeta) *)
(***************************************************************************)
\* the decimal string of 2*k for k in 0..5, written out
ExpectedRaw(k) ==
    <<(<<"0">>), (<<"2">>), (<<"4">>), (<<"6">>), (<<"8">>), (<<"1", "0">>)>>[k + 1]

NamedTags(meta, name) == SelectSeq(meta, LAMBDA m : m.Name = name)
PropertyEntries(meta) == SelectSeq(meta, LAMBDA m : m.Property # "")
CountProp(meta, prop) == Len(SelectSeq(meta, LAMBDA m : m.Property = prop))

\* C7: rating law. On every package (either declared version; no rating
\* entry, a name/content one, a property-style one, or both) and for every
\* integer r in [-10, 15], after SetRating(r) GetRating() is clamp(r, 0, 5) and
\* GetRatingRaw() is the decimal string of 2*clamp(r, 0, 5); and the package
\* a SetRating call has just left reads back the value that call was given.
C7_RatingLaw ==
    \A i \in DOMAIN pkg :
        /\ \A r \in RatingArgs :
              LET q == [pkg[i] EXCEPT !.Meta = SetRating(pkg[i], r)]
              IN  /\ GetRating(q) = Clamp05(r)
                  /\ GetRatingRaw(q) = ExpectedRaw(Clamp05(r))
        /\ hist.op = "SetRating" =>
              /\ GetRating(pkg[i]) = hist.rating.v
              /\ GetRatingRaw(pkg[i]) = ExpectedRaw(hist.rating.v)

\* C7 witness: SetRating has just run with an argument clamped to 5 on a
\* package that carries both shapes of rating entry
C7_Witness ==
    /\ hist.op = "SetRating" /\ hist.rating.v = 5
    /\ Len(NamedTags(pkg[1].Meta, "calibre:rating")) > 0
    /\ CountProp(pkg[1].Meta, "calibre:rating") > 0
    /\ GetRatingRaw(pkg[1]) = <<"1", "0">>

\* C8: SetSeries is idempotent. On every package and for every series value
\* s (the empty string included), SetSeries(s) applied twice leaves exactly
\* the Meta list that SetSeries(s) applied once leaves.
C8_SetSeriesIdempotent ==
    \A i \in DOMAIN pkg : \A s \in SeriesArgs :
        LET once == [pkg[i] EXCEPT !.Meta = SetSeries(pkg[i], s)]
        IN  SetSeries(once, s) = once.Meta

\* C8 witness: on an EPUB3 package that had no collection, SetSeries has been
\* called twice in a row with the same value and one collection pair exists
C8_Witness ==
    /\ hist.op = "SetSeries" /\ hist.rep
    /\ isEPUB3(pkg[1])
    /\ CountProp(hist.init, "belongs-to-collection") = 0
    /\ CountProp(pkg[1].Meta, "belongs-to-collection") = 1
    /\ CountProp(pkg[1].Meta, "collection-type") = 1

LegacyNames ==
    {"calibre:series", "calibre:series_index", "calibre:rating", "calibre:title_sort"}

AllHold(meta, name, last, v) ==
    last.set => \A k \in DOMAIN meta : meta[k].Name = name => meta[k].Content = v

\* C9: maintain-if-present on EPUB3. On a package whose declared version
\* starts with "3", after any sequence of SetSeries, SetSeriesIndex, SetRating
\* and SetTitleSort calls there are exactly as many legacy name/content tags of
\* each of the four names as before the first call, and once a value has been
\* written for a concern every legacy tag of that concern holds it.
C9_MaintainIfPresent ==
    \A i \in DOMAIN pkg : isEPUB3(pkg[i]) =>
        LET meta == pkg[i].Meta
        IN  /\ \A n \in LegacyNames :
                  Len(NamedTags(meta, n)) = Len(NamedTags(hist.init, n))
            /\ AllHold(meta, "calibre:series", hist.series, hist.series.v)
            /\ AllHold(meta, "calibre:series_index", hist.index, hist.index.v)
            /\ AllHold(meta, "calibre:title_sort", hist.title, hist.title.v)
            /\ hist.rating.set =>
                  AllHold(meta, "calibre:rating", hist.rating, ExpectedRaw(hist.rating.v))

\* C9 witness: an EPUB3 package that had a legacy series tag and no legacy
\* title-sort tag, after SetSeries and SetTitleSort were both called
C9_Witness ==
    /\ isEPUB3(pkg[1])
    /\ hist.series.set /\ hist.series.v = StrB /\ hist.title.set
    /\ Len(NamedTags(hist.init, "calibre:series")) > 0
    /\ Len(NamedTags(hist.init, "calibre:title_sort")) = 0
    /\ \E k \in DOMAIN pkg[1].Meta :
          pkg[1].Meta[k].Name = "calibre:series" /\ pkg[1].Meta[k].Content = StrB

StoredInTag(meta, name, last) ==
    last.set => /\ Len(NamedTags(meta, name)) > 0
                /\ AllHold(meta, name, last, last.v)

\* property-style entries with the text of the rating entries blanked
BlankRating(entries) ==
    [k \in DOMAIN entries |->
        IF entries[k].Property = "calibre:rating"
        THEN [entries[k] EXCEPT !.Value = NoStr] ELSE entries[k]]

LegacySeriesOnly(p) ==
    /\ \E k \in DOMAIN p.Meta :
          p.Meta[k].Name = "calibre:series" /\ p.Meta[k].Content # NoStr
    /\ CountProp(p.Meta, "belongs-to-collection") = 0

\* C11: on a version 3.x package with a non-empty legacy calibre:series tag
\* and no belongs-to-collection entry, SetSeriesIndex(x) stores x in a
\* property-style calibre:series_index entry, creates no belongs-to-collection
\* entry, and GetSeriesIndex() then returns x.
C11_LegacyOnlyFallback ==
    \A i \in DOMAIN pkg : \A x \in IndexArgs :
        (isEPUB3(pkg[i]) /\ LegacySeriesOnly(pkg[i])) =>
            LET after == [pkg[i] EXCEPT !.Meta = SetSeriesIndex(pkg[i], x)]
            IN  /\ \E k \in DOMAIN after.Meta :
                      /\ after.Meta[k].Property = "calibre:series_index"
                      /\ after.Meta[k].Value = x
                /\ CountProp(after.Meta, "belongs-to-collection") = 0
                /\ GetSeriesIndex(after) = x

\* C12: series round trip. On every package, of either declared version and
\* with any mix of collection entries and legacy calibre:series tags, and for
\* every string s, GetSeries() right after SetSeries(s) returns s.
C12_SeriesRoundTrip ==
    \A i \in DOMAIN pkg : \A s \in SeriesArgs :
        GetSeries([pkg[i] EXCEPT !.Meta = SetSeries(pkg[i], s)]) = s

(***************************************************************************)
(* Identifiers (metadata.go): parseIdentifier, isISBN, GetIdentifiers,     *)
(* SetISBN, over text values that are sequences of characters              *)
(***************************************************************************)
UpperChars ==
    <<"A", "B", "C", "D", "E", "F", "G", "H", "I", "J", "K", "L", "M",
      "N", "O", "P", "Q", "R", "S", "T", "U", "V", "W", "X", "Y", "Z">>
LowerChars ==
    <<"a", "b", "c", "d", "e", "f", "g", "h", "i", "j", "k", "l", "m",
      "n", "o", "p", "q", "r", "s", "t", "u", "v", "w", "x", "y", "z">>

\* strings.ToLower
ToLowerChar(c) ==
    IF \E k \in DOMAIN UpperChars : UpperChars[k] = c
    THEN LowerChars[CHOOSE k \in DOMAIN UpperChars : UpperChars[k] = c]
    ELSE c
ToLower(s) == [k \in DOMAIN s |-> ToLowerChar(s[k])]

\* strings.HasPrefix, strings.TrimPrefix
HasPrefix(s, pre) == Len(s) >= Len(pre) /\ SubSeq(s, 1, Len(pre)) = pre
TrimPrefix(s, pre) == IF HasPrefix(s, pre) THEN SubSeq(s, Len(pre) + 1, Len(s)) ELSE s

\* strings.Contains(s, c) and strings.ReplaceAll(s, c, "") for a one-character c
ContainsChar(s, c) == \E k \in DOMAIN s : s[k] = c
RemoveChar(s, c) == SelectSeq(s, LAMBDA x : x # c)

\* strings.SplitN(s, c, 2) and strings.SplitN(s, c, 3)
SplitN2(s, c) ==
    IF ContainsChar(s, c)
    THEN LET k == CHOOSE j \in DOMAIN s : s[j] = c /\ \A m \in 1..(j - 1) : s[m] # c
         IN  <<SubSeq(s, 1, k - 1), SubSeq(s, k + 1, Len(s))>>
    ELSE <<s>>
SplitN3(s, c) ==
    IF Len(SplitN2(s, c)) = 2
    THEN <<SplitN2(s, c)[1]>> \o SplitN2(SplitN2(s, c)[2], c)
    ELSE <<s>>

AllDigits(s) == \A k \in DOMAIN s : IsDigit(s[k])

UrnPrefix == <<"u", "r", "n", ":">>
UuidPrefix == <<"u", "u", "i", "d", ":">>
UrnIsbnPrefix == <<"u", "r", "n", ":", "i", "s", "b", "n", ":">>
IsbnPrefix == <<"i", "s", "b", "n", ":">>
UuidStr == <<"u", "u", "i", "d">>
UnknownStr == <<"u", "n", "k", "n", "o", "w", "n">>
IsbnStr == <<"i", "s", "b", "n">>
ISBNUpper == <<"I", "S", "B", "N">>

\* type IDMeta struct { Value, ID, Scheme }
IDMeta(id, scheme, value) == [ID |-> id, Scheme |-> scheme, Value |-> value]

\* func normalizeScheme(scheme): every case of the switch returns the
\* trimmed lower-case scheme
normalizeScheme(scheme) == ToLower(TrimSpace(scheme))

\* (mutant) 13 characters are accepted whatever their prefix
isISBNAnyPrefix(s) ==
    LET c == RemoveChar(RemoveChar(s, "-"), " ")
    IN  IF Len(c) = 10
        THEN AllDigits(SubSeq(c, 1, 9)) /\ (IsDigit(c[10]) \/ c[10] \in {"X", "x"})
        ELSE Len(c) = 13 /\ AllDigits(c)

\* func isISBN(s): ^\d{9}[\dXx]$ on 10 characters, ^(978|979)\d{10}$ on 13
isISBN(s) ==
    LET c == RemoveChar(RemoveChar(s, "-"), " ")
    IN  IF Len(c) = 10
        THEN AllDigits(SubSeq(c, 1, 9)) /\ (IsDigit(c[10]) \/ c[10] \in {"X", "x"})
        ELSE IF Len(c) = 13
             THEN /\ SubSeq(c, 1, 3) \in {<<"9", "7", "8">>, <<"9", "7", "9">>}
                  /\ AllDigits(SubSeq(c, 4, 13))
             ELSE FALSE

ParsedID(scheme, value) == [scheme |-> scheme, value |-> value]

\* parseIdentifier from its "scheme:value" step on
parseSchemeValue(value) ==
    LET parts == SplitN2(value, ":")
        es == normalizeScheme(parts[1])
    IN  IF ContainsChar(value, ":") /\ ~HasPrefix(ToLower(value), UuidPrefix)
           /\ es = UuidStr
        THEN ParsedID(UuidStr, parts[2])
        ELSE IF ContainsChar(value, ":") /\ ~HasPrefix(ToLower(value), UuidPrefix)
                /\ es # NoStr /\ es # UnknownStr
        THEN ParsedID(es, parts[2])
        ELSE IF HasPrefix(ToLower(value), UuidPrefix)
        THEN ParsedID(UuidStr, TrimPrefix(value, UuidPrefix))
        ELSE IF isISBN(value) THEN ParsedID(IsbnStr, value)
        ELSE ParsedID(UnknownStr, value)

\* func parseIdentifier(scheme, value) (string, string)
parseIdentifier(scheme, value) ==
    LET parts == SplitN3(value, ":")
    IN  IF scheme # NoStr /\ scheme # UnknownStr
        THEN ParsedID(normalizeScheme(scheme), value)
        ELSE IF HasPrefix(ToLower(value), UrnPrefix) /\ Len(parts) >= 3
        THEN ParsedID(normalizeScheme(parts[2]), parts[3])
        ELSE IF HasPrefix(ToLower(value), UrnPrefix) /\ Len(parts) = 2
                /\ normalizeScheme(parts[2]) = UuidStr
        THEN ParsedID(UuidStr, value)
        ELSE parseSchemeValue(value)

\* the map GetIdentifiers builds from the identifiers whose index is in keep:
\* a later identifier of the same scheme overwrites an earlier one
IdentifierMap(ids, keep) ==
    LET P(k) == parseIdentifier(ids[k].Scheme, ids[k].Value)
    IN  [s \in {P(k).scheme : k \in keep} |->
            P(CHOOSE k \in keep :
                /\ P(k).scheme = s
                /\ \A j \in keep : P(j).scheme = s => j <= k).value]

\* (mutant) uuid identifiers are not skipped
GetIdentifiersKeepUuid(p) ==
    LET ids == p.Identifiers
        P(k) == parseIdentifier(ids[k].Scheme, ids[k].Value)
    IN  IdentifierMap(ids, {k \in DOMAIN ids : P(k).scheme \notin {NoStr, UnknownStr}})

\* func (pkg *Package) GetIdentifiers() map[string]string
GetIdentifiers(p) ==
    LET ids == p.Identifiers
        P(k) == parseIdentifier(ids[k].Scheme, ids[k].Value)
    IN  IdentifierMap(ids, {k \in DOMAIN ids : P(k).scheme \notin {NoStr, UuidStr, UnknownStr}})

\* func (pkg *Package) GetISBN() string
GetISBN(p) ==
    LET ids == p.Identifiers
        P(k) == parseIdentifier(ids[k].Scheme, ids[k].Value)
        i == Least({k \in DOMAIN ids : P(k).scheme = IsbnStr})
    IN  IF i = 0 THEN NoStr ELSE P(i).value

IsDigitLike(c) == IsDigit(c) \/ c \in {"X", "x"}

\* func replaceDigitsPreserveSeparators(template, digits) (string, bool)
replaceDigitsPreserveSeparators(template, digits) ==
    LET Count(k) == Cardinality({j \in 1..k : IsDigitLike(template[j])})
    IN  IF Count(Len(template)) # Len(digits)
        THEN [ok |-> FALSE, v |-> NoStr]
        ELSE [ok |-> TRUE,
              v |-> [k \in DOMAIN template |->
                        IF IsDigitLike(template[k]) THEN digits[Count(k)]
                        ELSE template[k]]]

\* what the loop of SetISBN makes of one identifier that parses as isbn
RewriteISBN(p, id, isbn) ==
    LET trimmed == TrimSpace(isbn)
        clean == RemoveChar(RemoveChar(TrimSpace(isbn), "-"), " ")
        inputHasSep == ContainsChar(trimmed, "-") \/ ContainsChar(trimmed, " ")
        raw == TrimSpace(id.Value)
        lower == ToLower(raw)
        urn == [id EXCEPT !.Scheme = NoStr, !.Value = UrnIsbnPrefix \o clean]
        rep == replaceDigitsPreserveSeparators(raw, clean)
    IN  IF HasPrefix(lower, UrnIsbnPrefix) THEN urn
        ELSE IF isEPUB3(p) THEN urn
        ELSE IF HasPrefix(lower, IsbnPrefix) \/ inputHasSep
        THEN [id EXCEPT !.Scheme = ISBNUpper,
                        !.Value = IF inputHasSep THEN trimmed ELSE clean]
        ELSE IF (ContainsChar(raw, "-") \/ ContainsChar(raw, " ")) /\ rep.ok
        THEN [id EXCEPT !.Scheme = ISBNUpper, !.Value = rep.v]
        ELSE [id EXCEPT !.Scheme = ISBNUpper, !.Value = clean]

ParsesAsISBN(id) == parseIdentifier(id.Scheme, id.Value).scheme = IsbnStr

\* (mutant) the loop of SetISBN stops at the first identifier it rewrote
SetISBNFirstOnly(p, isbn) ==
    LET ids == p.Identifiers
        first == Least({k \in DOMAIN ids : ParsesAsISBN(ids[k])})
    IN  IF first = 0
        THEN ids \o <<RewriteISBN(p, IDMeta(NoStr, NoStr, NoStr), isbn)>>
        ELSE [ids EXCEPT ![first] = RewriteISBN(p, ids[first], isbn)]

\* func (pkg *Package) SetISBN(isbn string): the new Identifiers list. An
\* identifier appended when none parses as isbn gets the form the default
\* case gives a bare value without separators.
SetISBN(p, isbn) ==
    LET ids == p.Identifiers
    IN  IF \E k \in DOMAIN ids : ParsesAsISBN(ids[k])
        THEN [k \in DOMAIN ids |->
                 IF ParsesAsISBN(ids[k]) THEN RewriteISBN(p, ids[k], isbn) ELSE ids[k]]
        ELSE ids \o <<RewriteISBN(p, IDMeta(NoStr, NoStr, NoStr), isbn)>>

(***************************************************************************)
(* Packages the identifier accessors are exercised on                      *)
(***************************************************************************)
Isbn13 == <<"9", "7", "8", "0", "3", "0", "6", "4", "0", "6", "1", "5", "7">>
Isbn13Other == <<"9", "7", "8", "7", "5", "0", "0", "1", "6", "8", "1", "5", "7">>
Isbn13Sep ==
    <<"9", "7", "8", "-", "7", "-", "5", "0", "0", "1", "-", "6", "8", "1", "5", "-", "7">>
Isbn10X == <<"0", "3", "0", "6", "4", "0", "6", "1", "5", "X">>
Isbn10Sep == <<"0", "-", "3", "0", "6", "-", "4", "0", "6", "1", "5", "-", "2">>
UuidBody == <<"a", "b">>
\* the malformed values of metadata_test.go:1095 and 1115; "U+FF0D" is the
\* full-width hyphen-minus and "U+00B7" the middle dot, one character each
IsbnFullwidth ==
    <<"9", "7", "8", "U+FF0D", "7", "U+FF0D", "3", "0", "0", "U+FF0D",
      "2", "3", "4", "0", "0", "-", "7">>
IsbnSuffixed ==
    <<"7", "-", "8", "0", "6", "3", "9", "-", "9", "1", "8", "-", "6",
      "/", "I", "U+00B7", "2", "4", "6">>

IdPool ==
    { IDMeta(ISBNUpper, NoStr, Isbn13Sep),
      IDMeta(NoStr, ISBNUpper, Isbn13Other),
      IDMeta(NoStr, NoStr, UrnIsbnPrefix \o Isbn10X),
      IDMeta(NoStr, NoStr, <<"I", "S", "B", "N", ":">> \o Isbn13Other),
      IDMeta(NoStr, <<" ", "U", "u", "i", "d", " ">>, UuidBody),
      IDMeta(<<"i", "d">>, NoStr, <<"u", "r", "n", ":", "u", "u", "i", "d", ":">> \o UuidBody),
      IDMeta(NoStr, NoStr, <<"U", "R", "N", ":", "U", "U", "I", "D", ":">> \o UuidBody),
      IDMeta(NoStr, NoStr, <<"u", "r", "n", ":", "u", "u", "i", "d">>),
      IDMeta(NoStr, NoStr, <<"U", "U", "I", "D", ":">> \o UuidBody),
      IDMeta(NoStr, UnknownStr, <<"u", "r", "n", ":", "u", "u", "i", "d", ":">> \o UuidBody),
      IDMeta(NoStr, <<"U", "n", "k", "n", "o", "w", "n">>, UuidBody),
      IDMeta(NoStr, NoStr, <<":", "q">>),
      IDMeta(NoStr, <<"A", "S", "I", "N">>, <<"B", "0", "8">>),
      IDMeta(NoStr, ISBNUpper, IsbnFullwidth),
      IDMeta(NoStr, ISBNUpper, IsbnSuffixed) }

\* identifier lists of up to MaxIds entries
MaxIds == 2
IdLists == UNION {[1..n -> IdPool] : n \in 0..MaxIds}

IdentPackages ==
    {[Version |-> v, Titles |-> <<"Old Title">>, Meta |-> <<>>, Identifiers |-> ids] :
        v \in Versions, ids \in IdLists}

ISBNArgs == {Isbn13, Isbn10Sep, <<" ", "1", "2", " ">>}

\* ids := pkg.GetIdentifiers()
CallGetIdentifiers(i) ==
    /\ i \in DOMAIN pkg
    /\ hist' = [hist EXCEPT !.op = "GetIdentifiers",
                            !.arg = NoStr, !.ret = GetIdentifiers(pkg[i]),
                            !.before = pkg[i].Identifiers]
    /\ UNCHANGED <<fs, rdr, pkg, sv>>

\* pkg.SetISBN(isbn)
CallSetISBN(i, isbn) ==
    /\ i \in DOMAIN pkg
    /\ pkg' = [pkg EXCEPT ![i].Identifiers = SetISBN(pkg[i], isbn)]
    /\ hist' = [hist EXCEPT !.op = "SetISBN",
                            !.arg = isbn, !.ret = NoStr,
                            !.before = pkg[i].Identifiers]
    /\ UNCHANGED <<fs, rdr, sv>>

InitIdent ==
    /\ fs = EmptyFS
    /\ rdr = <<>>
    /\ sv = <<>>
    /\ \E p \in IdentPackages : pkg = <<p>>
    /\ hist = HistInit(<<>>)

NextIdent ==
    \/ \E i \in DOMAIN pkg : CallGetIdentifiers(i)
    \/ \E i \in DOMAIN pkg, isbn \in ISBNArgs : CallSetISBN(i, isbn)

SpecIdent == InitIdent /\ [][NextIdent]_vars

MaxFill == 11
IsbnHeads ==
    {<<>>, <<"9", "7", "8">>, <<"9", "7", "9">>, <<"9", "7", "7">>, <<"1", "X", "3">>}
IsbnLasts == {<<>>, <<"5">>, <<"X">>, <<"x">>, <<"A">>}
SepStyles == {"none", "hyphens", "spaces", "mixed"}

FillDigits(n) == [k \in 1..n |-> DigitChars[(k % 10) + 1]]

InsertAfter(s, k, c) ==
    IF Len(s) >= k THEN SubSeq(s, 1, k) \o <<c>> \o SubSeq(s, k + 1, Len(s)) ELSE s

WithSeparators(s, style) ==
    IF style = "hyphens" THEN InsertAfter(InsertAfter(s, 3, "-"), 1, "-")
    ELSE IF style = "spaces" THEN InsertAfter(InsertAfter(s, 3, " "), 1, " ")
    ELSE IF style = "mixed" THEN InsertAfter(InsertAfter(s, 3, " "), 1, "-")
    ELSE s

IsbnInputs ==
    {WithSeparators(h \o FillDigits(n) \o l, st) :
        h \in IsbnHeads, n \in 0..MaxFill, l \in IsbnLasts, st \in SepStyles}

\* isISBN(s), s the input drawn at the start
CallIsISBN ==
    /\ hist.op = "none"
    /\ hist' = [hist EXCEPT !.op = "isISBN", !.ret = isISBN(hist.arg)]
    /\ UNCHANGED <<fs, rdr, pkg, sv>>

\* C14 in the claim's own terms: without hyphens and spaces, 10 characters
\* that are 9 digits and then a digit or X/x, or 13 digits that begin with
\* 978 or 979
IsbnShape(s) ==
    LET c == SelectSeq(s, LAMBDA x : x \notin {"-", " "})
        digit == {"0", "1", "2", "3", "4", "5", "6", "7", "8", "9"}
    IN  \/ /\ Len(c) = 10
           /\ \A k \in 1..9 : c[k] \in digit
           /\ c[10] \in digit \cup {"X", "x"}
        \/ /\ Len(c) = 13
           /\ \A k \in 1..13 : c[k] \in digit
           /\ c[1] = "9" /\ c[2] = "7" /\ c[3] \in {"8", "9"}

\* C14: a bare value classifies as ISBN exactly when it has that shape; 9 or
\* 11 digits, 13 digits with another prefix and an invalid last character
\* do not classify.
C14_IsbnHeuristic ==
    hist.op = "isISBN" => (hist.ret <=> IsbnShape(hist.arg))

\* isISBN rejected 13 digits that begin with 977 and were written with hyphens
C14_Witness ==
    /\ hist.op = "isISBN"
    /\ hist.ret = FALSE
    /\ Len(RemoveChar(hist.arg, "-")) = 13
    /\ Len(hist.arg) = 15
    /\ AllDigits(RemoveChar(hist.arg, "-"))
    /\ SubSeq(hist.arg, 1, 1) = <<"9">>

(***************************************************************************)
(* parseAuthorString                                                       *)
(***************************************************************************)
IndexOfSeq(s, d) ==
    Least({k \in 1..(Len(s) - Len(d) + 1) : SubSeq(s, k, k + Len(d) - 1) = d})

ContainsSeq(s, d) == IndexOfSeq(s, d) # 0

RECURSIVE Split(_, _)
Split(s, d) ==
    LET k == IndexOfSeq(s, d)
    IN  IF k = 0 THEN <<s>>
        ELSE <<SubSeq(s, 1, k - 1)>> \o Split(SubSeq(s, k + Len(d), Len(s)), d)

ReplaceChar(s, from, to) == [k \in DOMAIN s |-> IF s[k] = from THEN to ELSE s[k]]

\* the loop that trims every part and keeps the non-empty ones
TrimmedParts(parts) ==
    SelectSeq([k \in DOMAIN parts |-> TrimSpace(parts[k])], LAMBDA p : p # <<>>)

\* a character outside ASCII is written as its code point
safeDelimiters ==
    << <<" ", "&", " ">>, <<"&">>, <<"U+3001">>, <<" ", "a", "n", "d", " ">>,
       <<" ", "A", "N", "D", " ">>, <<"U+FF1B">>, <<";">> >>

RECURSIVE SafeSplit(_, _)
SafeSplit(s, delims) ==
    IF delims = <<>> THEN [ok |-> FALSE, v |-> <<>>]
    ELSE LET result == TrimmedParts(Split(s, Head(delims)))
         IN  IF ContainsSeq(s, Head(delims)) /\ Len(result) > 1
             THEN [ok |-> TRUE, v |-> result]
             ELSE SafeSplit(s, Tail(delims))

isMultipleAuthors(parts) ==
    LET firstPart == TrimSpace(parts[1])
        secondPart == TrimSpace(parts[2])
    IN  \/ Len(parts) > 2
        \/ ContainsChar(firstPart, " ")
        \/ (Len(parts) = 2 /\ ContainsChar(secondPart, " ")
                /\ ~ContainsChar(firstPart, " "))

CommaSplitHeuristic(s, parts) == isMultipleAuthors(parts)

CommaSplit(s, parts) == isMultipleAuthors(parts) /\ Len(parts) > 2

parseAuthorString(str) ==
    LET s == TrimSpace(str)
        safe == SafeSplit(s, safeDelimiters)
        parts == Split(ReplaceChar(s, "U+FF0C", ","), <<",">>)
    IN  IF s = <<>> THEN <<>>
        ELSE IF safe.ok THEN safe.v
        ELSE IF /\ ContainsChar(s, ",") \/ ContainsChar(s, "U+FF0C")
                /\ Len(parts) >= 2
                /\ CommaSplit(s, parts)
             THEN TrimmedParts(parts)
        ELSE <<s>>

\* creator strings: up to MaxNames names joined by one separator
MaxNames == 4
NamePool ==
    {<<"A">>, <<"B">>, <<"D", "o", "e">>, <<"J", " ", "R">>, <<>>}
NameSeps ==
    { <<",", " ">>, <<",">>, <<"U+FF0C">>, <<" ", ",", " ">>,
      <<" ", "&", " ">>, <<"&">>, <<";">>, <<" ", "a", "n", "d", " ">>, <<"U+3001">> }

RECURSIVE JoinNames(_, _)
JoinNames(names, sep) ==
    IF Len(names) = 0 THEN <<>>
    ELSE IF Len(names) = 1 THEN names[1]
    ELSE names[1] \o sep \o JoinNames(Tail(names), sep)

AuthorInputs ==
    {JoinNames(names, sep) :
        names \in UNION {[1..n -> NamePool] : n \in 1..MaxNames}, sep \in NameSeps}

\* parseAuthorString(s), s the input drawn at the start
CallParseAuthorString ==
    /\ hist.op = "none"
    /\ hist' = [hist EXCEPT !.op = "parseAuthorString",
                            !.ret = parseAuthorString(hist.arg)]
    /\ UNCHANGED <<fs, rdr, pkg, sv>>

(***************************************************************************)
(* The pure helpers applied to their inputs                                *)
(***************************************************************************)
InitPure ==
    /\ fs = EmptyFS
    /\ rdr = <<>>
    /\ pkg = <<>>
    /\ sv = <<>>
    /\ \E s \in IsbnInputs \cup AuthorInputs :
            hist = [HistInit(<<>>) EXCEPT !.arg = s]

NextPure ==
    \/ CallIsISBN
    \/ CallParseAuthorString

SpecPure == InitPure /\ [][NextPure]_vars

(***************************************************************************)
(* Claim about author splitting                                            *)
(***************************************************************************)
HasSafeDelimiter(s) ==
    \E k \in DOMAIN safeDelimiters : ContainsSeq(s, safeDelimiters[k])

\* the comma-separated segments of a creator string, either comma
CommaSegments(s) ==
    Split(ReplaceChar(TrimSpace(s), "U+FF0C", ","), <<",">>)

IsbnPositions(ids) == {k \in DOMAIN ids : ParsesAsISBN(ids[k])}

\* C15: with two or more identifiers that classify as ISBN, SetISBN rewrites
\* only the first of them; every other identifier keeps its scheme and
\* value, and the number of identifiers does not change.
C15_OnlyFirstRewritten ==
    (hist.op = "SetISBN" /\ Cardinality(IsbnPositions(hist.before)) >= 2) =>
        LET after == pkg[1].Identifiers
            first == Least(IsbnPositions(hist.before))
        IN  /\ Len(after) = Len(hist.before)
            /\ \A k \in DOMAIN hist.before :
                   k # first =>
                       /\ after[k].Scheme = hist.before[k].Scheme
                       /\ after[k].Value = hist.before[k].Value

(***************************************************************************)
(* Open: reader.go                                                         *)
(***************************************************************************)
\* documents are sequences of tokens; these tokens stand for the rootfile
\* elements of a container descriptor
RfPackage == "<rootfile full-path='OEBPS/content.opf' media-type='application/oebps-package+xml'/>"
RfPlain == "<rootfile full-path='OEBPS/content.opf' media-type='text/plain'/>"
RfAbsent == "<rootfile full-path='OEBPS/absent.opf' media-type='application/oebps-package+xml'/>"
AbsentOpfName == <<"OEBPS", "absent.opf">>
PackageMediaType == "application/oebps-package+xml"

\* type RootFile
RootFile(token) ==
    [FullPath |-> IF token = RfAbsent THEN AbsentOpfName ELSE OpfName,
     MediaType |-> IF token = RfPlain THEN "text/plain" ELSE PackageMediaType]

\* a token that makes a document not well-formed, and a comment with "--"
MalformedToken == "<unclosed"
InvalidComment == "<!-- a -- b -->"

ContainerDoc(rootfiles) == <<"<container>">> \o rootfiles \o <<"</container>">>

\* xml.NewDecoder(f).Decode(&c)
DecodeContainer(content) ==
    IF \/ content = <<>>
       \/ \E k \in DOMAIN content : content[k] = MalformedToken
       \/ Head(content) # "<container>"
    THEN [err |-> "malformed container.xml", RootFiles |-> <<>>]
    ELSE [err |-> "",
          RootFiles |->
              LET rfs == SelectSeq(content,
                             LAMBDA t : t \in {RfPackage, RfPlain, RfAbsent})
              IN  [k \in DOMAIN rfs |-> RootFile(rfs[k])]]

\* func (r *Reader) openFile(name): the content of the first entry of that name
openFile(file, name) ==
    LET index == IndexOf(file.entries)
        hits == {k \in DOMAIN index : index[k].name = name}
    IN  IF hits = {} THEN [err |-> "file not found", data |-> <<>>]
        ELSE LET f == index[Least(hits)]
             IN  [err |-> "", data |-> Decompress(f.method, file.entries[f.off].data)]

\* func (r *Reader) parseContainer(): the error and r.OpfPath
parseContainer(file) ==
    LET f == openFile(file, ContainerName)
        c == DecodeContainer(f.data)
        typed == {k \in DOMAIN c.RootFiles : c.RootFiles[k].MediaType = PackageMediaType}
    IN  IF f.err # "" THEN [err |-> "container.xml missing", OpfPath |-> <<>>]
        ELSE IF c.err # "" THEN [err |-> c.err, OpfPath |-> <<>>]
        ELSE IF Len(c.RootFiles) = 0
        THEN [err |-> "no rootfile found in container.xml", OpfPath |-> <<>>]
        ELSE IF typed # {}
        THEN [err |-> "", OpfPath |-> c.RootFiles[Least(typed)].FullPath]
        ELSE [err |-> "", OpfPath |-> c.RootFiles[1].FullPath]

\* func preprocessOPF(data): comments holding "--" are removed
preprocessOPF(data) == SelectSeq(data, LAMBDA t : t # InvalidComment)

\* the packages a package document on disk may describe
OpenPackages ==
    {[Version |-> v, Titles |-> <<t>>, Meta |-> m] :
        v \in Versions, t \in TitleArgs, m \in {<<>>, <<LegT(<<"T">>)>>}}

\* func parsePackageFromEtree(doc): the Package whose elements the document
\* holds, or an error when the document has no package root
parsePackageFromEtree(doc) ==
    LET body == SelectSeq(doc, LAMBDA t : t # InvalidComment /\ t # XmlHeader[1])
        hits == {p \in OpenPackages : MarshalIndent(p) = body}
    IN  IF hits = {} THEN [err |-> "no package element found", Package |-> <<>>]
        ELSE [err |-> "", Package |-> <<CHOOSE p \in hits : TRUE>>]

\* func (r *Reader) parseOPF(): the error and r.Package
parseOPF(file, OpfPath) ==
    LET f == openFile(file, OpfPath)
        data == preprocessOPF(f.data)
        parsed == parsePackageFromEtree(data)
    IN  IF f.err # "" THEN [err |-> "OPF file missing", Package |-> <<>>]
        ELSE IF \E k \in DOMAIN data : data[k] = MalformedToken
        THEN [err |-> "malformed OPF", Package |-> <<>>]
        ELSE IF parsed.err # "" THEN [err |-> "failed to parse OPF structure", Package |-> <<>>]
        ELSE parsed

\* (mutant) Close leaves the file open
ReaderCloseNot(handles, closer) == handles

\* func (r *Reader) Close(), and f.Close(): the handles still open
ReaderClose(handles, closer) == handles \ {closer}

\* what Open hands back, and the handles it leaves open on the source
OpenFailure(err, handles) ==
    [err |-> err, reader |-> <<>>, package |-> <<>>, handles |-> handles]

\* func Open(filepath); statOk: f.Stat() succeeded
Open(fsys, path, statOk) ==
    IF ~Exists(fsys, path) THEN OpenFailure("failed to open file", {})
    ELSE LET f == fsys.dir[path]
             file == FileAt(fsys, path)
             c == parseContainer(file)
             o == parseOPF(file, c.OpfPath)
         IN  IF ~statOk
             THEN OpenFailure("failed to stat file", ReaderClose({f}, f))
             ELSE IF ~file.complete
             THEN OpenFailure("failed to open zip reader", ReaderClose({f}, f))
             ELSE IF c.err # ""
             THEN OpenFailure("failed to parse container", ReaderClose({f}, f))
             ELSE IF o.err # ""
             THEN OpenFailure("failed to parse OPF", ReaderClose({f}, f))
             ELSE [err |-> "",
                   reader |-> <<[OpenReader(fsys, path, <<>>) EXCEPT !.OpfPath = c.OpfPath]>>,
                   package |-> o.Package,
                   handles |-> {f}]

(***************************************************************************)
(* Files Open is called on                                                 *)
(***************************************************************************)
MaxOpens == 2

ContainerDocs ==
    {ContainerDoc(<<RfPackage>>), ContainerDoc(<<RfPlain, RfPackage>>),
     ContainerDoc(<<RfPlain>>), ContainerDoc(<<RfAbsent>>), ContainerDoc(<<>>),
     <<"<container>", MalformedToken>>, <<"<html>", "</html>">>}

OpfDocs ==
    {OpfContent(p) : p \in OpenPackages}
    \cup {XmlHeader \o <<InvalidComment>> \o MarshalIndent(p) : p \in OpenPackages}
    \cup {XmlHeader \o <<"<html>", "</html>">>, XmlHeader \o <<MalformedToken>>, <<>>}

\* an archive with at most one container descriptor and one package document
OpenArch(conts, opfs) ==
    <<SrcEntry(MimetypeName, Store, FALSE, MimeBytes)>>
    \o [k \in DOMAIN conts |-> SrcEntry(ContainerName, Deflate, FALSE, conts[k])]
    \o [k \in DOMAIN opfs |-> SrcEntry(OpfName, Deflate, FALSE, opfs[k])]
    \o <<SrcEntry(ChapterName, Store, FALSE, <<"chapter">>)>>

\* what a path may name: nothing, bytes that are no archive, an archive
OpenFiles ==
    {<<>>, <<MkFile(<<>>, FALSE)>>}
    \cup {<<MkFile(OpenArch(c, o), TRUE)>> :
            c \in {<<>>} \cup {<<d>> : d \in ContainerDocs},
            o \in {<<>>} \cup {<<d>> : d \in OpfDocs}}

GoodFile == MkFile(OpenArch(<<ContainerDoc(<<RfPackage>>)>>, <<OpfContent(SavePackage)>>), TRUE)

\* epub.Open(path)
CallOpen(path, statOk) ==
    /\ hist.calls < MaxOpens
    /\ LET res == Open(fs, path, statOk)
       IN  /\ rdr' = rdr \o res.reader
           /\ pkg' = pkg \o res.package
           /\ hist' = [hist EXCEPT !.calls = @ + 1, !.op = "Open", !.arg = path,
                                   !.ret = res, !.before = <<rdr, pkg>>]
    /\ UNCHANGED <<fs, sv>>

InitOpen ==
    /\ \E book \in OpenFiles, other \in {<<>>, <<GoodFile>>} :
          fs = [dir |-> [p \in Paths |->
                            IF p = "book.epub" /\ book # <<>> THEN 1
                            ELSE IF p = "other.epub" /\ other # <<>> THEN Len(book) + 1
                            ELSE 0],
                ino |-> book \o other]
    /\ rdr = <<>>
    /\ pkg = <<>>
    /\ sv = <<>>
    /\ hist = HistInit(<<>>)

NextOpen ==
    \E path \in {"book.epub", "other.epub"}, statOk \in BOOLEAN : CallOpen(path, statOk)

SpecOpen == InitOpen /\ [][NextOpen]_vars

(***************************************************************************)
(* Claim about failures of Open                                            *)
(***************************************************************************)
\* C17: every failure of Open is terminal: Open returns an error and no
\* Reader and no Package (none is returned without the other, and the
\* caller's Readers and Packages are as before), and the handle it opened on
\* the source is closed when it returns.
C17_OpenFailureTerminal ==
    hist.op = "Open" =>
        /\ (hist.ret.err = "") <=> (hist.ret.reader # <<>>)
        /\ (hist.ret.err = "") <=> (hist.ret.package # <<>>)
        /\ hist.ret.err # "" =>
              /\ hist.ret.handles = {}
              /\ <<rdr, pkg>> = hist.before

\* Open failed on the package document, after the Reader had been built
C17_Witness ==
    /\ hist.op = "Open"
    /\ hist.ret.err = "failed to parse OPF"
    /\ hist.ret.handles = {}
    /\ Exists(fs, hist.arg)

(***************************************************************************)
(* Save over the file the Reader has open                                  *)
(***************************************************************************)
MaxInPlaceSaves == 2

ArchReadable ==
    OpenArch(<<ContainerDoc(<<RfPackage>>)>>, <<OpfContent(SavePackage)>>)

ArchReadableLate ==
    <<SrcEntry(ContainerName, Deflate, FALSE, ContainerDoc(<<RfPackage>>)),
      SrcEntry(MimetypeName, Deflate, FALSE, MimeBytes),
      SrcEntry(OpfName, Store, FALSE, OpfContent(SavePackage)),
      SrcEntry(ChapterName, Deflate, FALSE, <<"chapter">>)>>

InPlaceRepl == {f \in ReplChoices : DOMAIN f \subseteq {ChapterName, CoverName}}

\* Open("book.epub") has returned the Reader and its Package
InitInPlace ==
    \E arch \in {ArchReadable, ArchReadableLate}, repl \in InPlaceRepl :
        /\ fs = [dir |-> [p \in Paths |-> IF p = "book.epub" THEN 1 ELSE 0],
                 ino |-> <<MkFile(arch, TRUE)>>]
        /\ rdr = <<[Open(fs, "book.epub", TRUE).reader[1] EXCEPT !.Replacements = repl]>>
        /\ pkg = Open(fs, "book.epub", TRUE).package
        /\ sv = <<IdleFrame>>
        /\ hist = [HistInit(<<>>) EXCEPT !.prior = StateAt(fs, "book.epub")]

\* the title is set before the first Save; the path is opened again after a
\* Save returned
NextInPlace ==
    \/ \E title \in TitleArgs : sv[1].pc = "idle" /\ CallSetTitle(1, title)
    \/ \E ok \in BOOLEAN : SaveCreateTempWithin(1, rdr[1].path, ok, MaxInPlaceSaves)
    \/ \E ok \in BOOLEAN : SaveWriteMimetype(1, ok)
    \/ \E ok \in BOOLEAN : SaveCopyStep(1, ok)
    \/ \E path \in ReplPaths, ok \in BOOLEAN : SaveNewStep(1, path, ok)
    \/ \E ok \in BOOLEAN : SaveClose(1, ok)
    \/ \E ok \in BOOLEAN : SaveRename(1, ok)
    \/ \E statOk \in BOOLEAN : sv[1].pc = "returned" /\ CallOpen(rdr[1].path, statOk)

SpecInPlace == InitInPlace /\ [][NextInPlace]_vars

(***************************************************************************)
(* Claim about Save in place                                               *)
(***************************************************************************)
\* C18: Save to the path the Reader has open succeeds. The open Reader keeps
\* the old file: its handle names a file with the original content all the
\* time, the rename finds the temporary file and another file to replace,
\* and after a successful Save (the first or a later one) the path names a
\* new file in which every raw copy has the original bytes and which Open
\* reads as the mutated Package.
C18_InPlaceSave ==
    LET src == hist.prior[1]
    IN  /\ rdr[1].file \in DOMAIN fs.ino
        /\ fs.ino[rdr[1].file] = src
        /\ sv[1].pc = "rename" =>
              /\ Exists(fs, sv[1].tmpPath)
              /\ fs.dir[sv[1].tmpPath] # rdr[1].file
        /\ Succeeded(1) =>
              /\ fs.dir[rdr[1].path] # rdr[1].file
              /\ \A k \in DOMAIN src.entries :
                    LET e == src.entries[k]
                    IN  (/\ e.name # MimetypeName
                         /\ ~IsDirectoryOnly(e)
                         /\ e.name # rdr[1].OpfPath
                         /\ e.name \notin DOMAIN rdr[1].Replacements)
                        => \E j \in DOMAIN Output(1) : Output(1)[j] = e
              /\ Open(fs, rdr[1].path, TRUE).err = ""
              /\ Open(fs, rdr[1].path, TRUE).package = <<pkg[1]>>

\* the second Save in place succeeded, with a new title, the path opened
\* again in between
C18_Witness ==
    /\ Succeeded(1)
    /\ sv[1].n = 2
    /\ sv[1].out = rdr[1].path
    /\ pkg[1].Titles = <<"New Title">>
    /\ hist.prior[1].entries[3].name = OpfName
    /\ Len(rdr) = 2
    /\ rdr[2].file # rdr[1].file

(***************************************************************************)
(* Claim about compression methods (checked under SpecSave)                *)
(***************************************************************************)
MethodsOf(entries, name) == {entries[k].method : k \in {j \in DOMAIN entries : entries[j].name = name}}

InBoth(i, name) ==
    /\ \E k \in DOMAIN Original(i) : Original(i)[k].name = name
    /\ \E k \in DOMAIN Output(i) : Output(i)[k].name = name

\* C20 as stated: every name present in both the input and the output of a
\* successful Save has the same compression method in both.
C20_SameMethodEveryName ==
    \A i \in DOMAIN sv :
        Succeeded(i) =>
            \A k \in DOMAIN Original(i) :
                InBoth(i, Original(i)[k].name) =>
                    MethodsOf(Output(i), Original(i)[k].name)
                        = MethodsOf(Original(i), Original(i)[k].name)

\* C20: every name present in both the input and the output of a successful
\* Save, other than mimetype and names that end in "/", has the same
\* compression method in both, be it copied raw or written fresh (the
\* package document, a Replacement Map path); mimetype and names that end
\* in "/" are stored in the output whatever their method in the input.
C20_MethodPreserved ==
    \A i \in DOMAIN sv :
        Succeeded(i) =>
            /\ \A k \in DOMAIN Original(i) :
                  LET name == Original(i)[k].name
                  IN  (InBoth(i, name) /\ name # MimetypeName /\ ~HasSlashSuffix(name))
                      => MethodsOf(Output(i), name) = MethodsOf(Original(i), name)
            /\ \A j \in DOMAIN Output(i) :
                  (Output(i)[j].name = MimetypeName \/ HasSlashSuffix(Output(i)[j].name))
                      => Output(i)[j].method = Store

\* a Save succeeded in which the package document, stored in the source, and
\* a replaced chapter, deflated in the source, were written fresh
C20_Witness ==
    /\ Succeeded(1)
    /\ MethodsOf(Original(1), OpfName) = {Store}
    /\ MethodsOf(Original(1), ChapterName) = {Deflate}
    /\ ChapterName \in DOMAIN rdr[1].Replacements
    /\ \E j \in DOMAIN Output(1) :
          /\ Output(1)[j].name = ChapterName
          /\ Output(1)[j].method = Deflate
          /\ Output(1)[j].data = Compress(Deflate, rdr[1].Replacements[ChapterName])
    /\ \E j \in DOMAIN Output(1) :
          Output(1)[j].name = OpfName /\ Output(1)[j].method = Store

(***************************************************************************)
(* The package document as elements: serialisers and parser                *)
(***************************************************************************)
\* type Meta with all its fields, type SimpleMeta
FullMeta(id, name, content, property, refines, scheme, value) ==
    [ID |-> id, Name |-> name, Content |-> content, Property |-> property,
     Refines |-> refines, Scheme |-> scheme, Value |-> value]

SimpleMeta(value, id, dir, lang) == [Value |-> value, ID |-> id, Dir |-> dir, Lang |-> lang]

\* an element: its tag, its attributes in document order, its text
Element(tag, attrs, text) == [tag |-> tag, attrs |-> attrs, text |-> text]

\* an attribute that is written only when its value is not empty
OmitEmpty(key, value) == IF value = NoStr THEN <<>> ELSE <<<<key, value>>>>

\* etree.Element.SelectAttrValue(key, ""), the namespace prefix ignored
SelectAttrValue(el, key) ==
    LET hits == {k \in DOMAIN el.attrs : el.attrs[k][1] = key}
    IN  IF hits = {} THEN NoStr ELSE el.attrs[Least(hits)][2]

\* xml.MarshalIndent on a Meta: every attribute is omitempty, Value is chardata
XmlMeta(m) ==
    Element("meta",
            OmitEmpty("id", m.ID) \o OmitEmpty("name", m.Name)
            \o OmitEmpty("content", m.Content) \o OmitEmpty("property", m.Property)
            \o OmitEmpty("refines", m.Refines) \o OmitEmpty("scheme", m.Scheme),
            m.Value)

\* xml.MarshalIndent on a SimpleMeta of Titles
XmlTitle(t) ==
    Element("title",
            OmitEmpty("id", t.ID) \o OmitEmpty("dir", t.Dir) \o OmitEmpty("lang", t.Lang),
            t.Value)

\* marshalOPFWithEtree: one meta element
EtreeMeta(m) ==
    IF m.Property # NoStr
    THEN Element("meta",
                 <<<<"property", m.Property>>>> \o OmitEmpty("refines", m.Refines)
                 \o OmitEmpty("scheme", m.Scheme) \o OmitEmpty("id", m.ID),
                 m.Value)
    ELSE IF m.Name # NoStr
    THEN Element("meta", <<<<"name", m.Name>>, <<"content", m.Content>>>>, NoStr)
    ELSE Element("meta", <<>>, NoStr)

\* marshalOPFWithEtree: one dc:title element
EtreeTitle(t) ==
    Element("title",
            OmitEmpty("id", t.ID) \o OmitEmpty("lang", t.Lang) \o OmitEmpty("dir", t.Dir),
            t.Value)

\* the document: the version attribute of the root and the children of metadata
XmlMarshalPackage(p) ==
    [version |-> p.Version,
     metadata |-> [k \in DOMAIN p.Titles |-> XmlTitle(p.Titles[k])]
                  \o [k \in DOMAIN p.Meta |-> XmlMeta(p.Meta[k])]]

marshalOPFWithEtree(p) ==
    [version |-> p.Version,
     metadata |-> [k \in DOMAIN p.Titles |-> EtreeTitle(p.Titles[k])]
                  \o [k \in DOMAIN p.Meta |-> EtreeMeta(p.Meta[k])]]

SelectElements(els, tag) == SelectSeq(els, LAMBDA e : e.tag = tag)

\* func parseMetadataFromEtree(elem) within parsePackageFromEtree(doc)
parseMetadataFromEtree(doc) ==
    LET titles == SelectElements(doc.metadata, "title")
        metas == SelectElements(doc.metadata, "meta")
    IN  [Version |-> doc.version,
         Titles |-> [k \in DOMAIN titles |->
                        SimpleMeta(titles[k].text, SelectAttrValue(titles[k], "id"),
                                   NoStr, SelectAttrValue(titles[k], "lang"))],
         Meta |-> [k \in DOMAIN metas |->
                      FullMeta(SelectAttrValue(metas[k], "id"),
                               SelectAttrValue(metas[k], "name"),
                               SelectAttrValue(metas[k], "content"),
                               SelectAttrValue(metas[k], "property"),
                               SelectAttrValue(metas[k], "refines"),
                               SelectAttrValue(metas[k], "scheme"),
                               metas[k].text)]]

(***************************************************************************)
(* Packages that are serialised and parsed again                           *)
(***************************************************************************)
MaxMetas == 2

StrId == <<"m", "1">>
StrName == <<"c", "o", "v", "e", "r">>
StrProp == <<"r", "o", "l", "e">>
StrScheme == <<"m", "a", "r", "c">>
StrRef == <<"#", "c", "1">>
StrRtl == <<"r", "t", "l">>
StrEn == <<"e", "n">>

OpfMetaPool ==
    {FullMeta(NoStr, StrName, StrA, NoStr, NoStr, NoStr, NoStr),
     FullMeta(StrId, StrName, StrA, NoStr, NoStr, NoStr, NoStr),
     FullMeta(NoStr, NoStr, NoStr, StrProp, NoStr, NoStr, StrB),
     FullMeta(StrId, NoStr, NoStr, StrProp, StrRef, StrScheme, StrB),
     FullMeta(StrId, StrName, StrA, StrProp, StrRef, StrScheme, StrB),
     FullMeta(NoStr, StrName, NoStr, NoStr, NoStr, NoStr, StrB)}

OpfTitlePool ==
    {SimpleMeta(StrA, NoStr, NoStr, NoStr), SimpleMeta(StrA, StrId, NoStr, StrEn),
     SimpleMeta(StrA, NoStr, StrRtl, NoStr)}

OpfPackages ==
    {[Version |-> v, Titles |-> t, Meta |-> m] :
        v \in Versions,
        t \in {<<>>} \cup {<<x>> : x \in OpfTitlePool},
        m \in UNION {[1..n -> OpfMetaPool] : n \in 0..MaxMetas}}

\* xml.MarshalIndent(r.Package) as Save does it, then parsePackageFromEtree
CallRoundTripXml ==
    /\ hist.op = "none"
    /\ hist' = [hist EXCEPT !.op = "xml.MarshalIndent",
                            !.ret = parseMetadataFromEtree(XmlMarshalPackage(pkg[1]))]
    /\ UNCHANGED <<fs, rdr, pkg, sv>>

\* pkg.marshalOPFWithEtree(), then parsePackageFromEtree
CallRoundTripEtree ==
    /\ hist.op = "none"
    /\ hist' = [hist EXCEPT !.op = "marshalOPFWithEtree",
                            !.ret = parseMetadataFromEtree(marshalOPFWithEtree(pkg[1]))]
    /\ UNCHANGED <<fs, rdr, pkg, sv>>

InitOpf ==
    /\ fs = EmptyFS
    /\ rdr = <<>>
    /\ sv = <<>>
    /\ \E p \in OpfPackages : pkg = <<p>>
    /\ hist = HistInit(<<>>)

NextOpf ==
    \/ CallRoundTripXml
    \/ CallRoundTripEtree

SpecOpf == InitOpf /\ [][NextOpf]_vars

(***************************************************************************)
(* Claim about the round trip of the package document                      *)
(***************************************************************************)
\* C19: serialising a Package to package-document XML and mapping the XML
\* back yields a Package equal on the modeled fields; every Meta keeps its
\* id, name, content, property, refines, scheme and text value, in the
\* EPUB2 shape, the EPUB3 shape, or with attributes of both.
C19_RoundTrip ==
    hist.op \in {"xml.MarshalIndent", "marshalOPFWithEtree"} => hist.ret = pkg[1]

(***************************************************************************)
(* Claim about the Replacement Map after Save (checked under SpecInPlace)  *)
(***************************************************************************)
\* C21: after a successful Save the Reader's Replacement Map is empty, and
\* a second Save on the same Reader, no content-replacing call in between,
\* writes no replacement content.
C21_ReplacementsCleared ==
    Succeeded(1) =>
        /\ DOMAIN rdr[1].Replacements = {}
        /\ sv[1].n >= 2 =>
              \A j \in DOMAIN Output(1) :
                  Output(1)[j].name \in {ChapterName, CoverName} =>
                      \E k \in DOMAIN hist.prior[1].entries :
                          hist.prior[1].entries[k] = Output(1)[j]

(***************************************************************************)
(* Packages with ids on Dublin Core elements and manifest items            *)
(***************************************************************************)
\* type Item
Item(id, href, mediaType, properties) ==
    [ID |-> id, Href |-> href, MediaType |-> mediaType, Properties |-> properties]

StrCh1 == <<"c", "h", "1">>
HrefCh1 == <<"c", "h", "1", ".", "x", "h", "t", "m", "l">>
XhtmlType == "application/xhtml+xml"

DocIdChoices == {NoStr, C01, C02}

DocMetaLists ==
    { <<>>,
      <<LegS(StrA)>>,
      <<MkMeta(C01, "cover", <<"i">>, "", NoStr, NoStr)>>,
      <<Coll(C01, StrA), CType(C01, <<"s", "e", "t">>)>>,
      <<Coll(C01, StrA), CType(C01, SeriesStr)>>,
      <<Coll(NoStr, StrA), PropR(<<"8">>)>> }

DocPackages ==
    {[Version |-> v,
      Titles |-> <<SimpleMeta(StrA, t, NoStr, NoStr)>>,
      Identifiers |-> <<IDMeta(d, NoStr, Isbn13)>>,
      Manifest |-> <<Item(StrCh1, HrefCh1, XhtmlType, NoStr), Item(it, HrefCh1, XhtmlType, NoStr)>>,
      Meta |-> ml] :
        v \in Versions, t \in DocIdChoices, d \in DocIdChoices,
        it \in DocIdChoices \ {NoStr}, ml \in DocMetaLists}

InitDoc ==
    /\ fs = EmptyFS
    /\ rdr = <<>>
    /\ sv = <<>>
    /\ \E p \in DocPackages :
          /\ pkg = <<p>>
          /\ hist = HistInit(p.Meta)

NextDoc ==
    \/ \E i \in DOMAIN pkg, s \in SeriesArgs : CallSetSeries(i, s)
    \/ \E i \in DOMAIN pkg, x \in IndexArgs : CallSetSeriesIndex(i, x)

SpecDoc == InitDoc /\ [][NextDoc]_vars

(***************************************************************************)
(* Claim about the id of a new collection (checked under SpecDoc)          *)
(***************************************************************************)
\* every id of the package document
AllIds(p) ==
    ({p.Meta[k].ID : k \in DOMAIN p.Meta}
     \cup {p.Titles[k].ID : k \in DOMAIN p.Titles}
     \cup {p.Identifiers[k].ID : k \in DOMAIN p.Identifiers}
     \cup {p.Manifest[k].ID : k \in DOMAIN p.Manifest}) \ {NoStr}

\* C22: when SetSeries on an EPUB3 package finds no series collection and
\* allocates a collection id, the id is "c" and two digits and differs from
\* every id of the package document: of Meta entries, of Dublin Core
\* elements and of manifest items.
C22_FreshCollectionID ==
    \A i \in DOMAIN pkg : \A s \in SeriesArgs :
        (isEPUB3(pkg[i]) /\ FindCollectionID(pkg[i].Meta) = NoStr) =>
            LET after == SetSeries(pkg[i], s)
                new == {after[k].ID : k \in (DOMAIN after) \ (DOMAIN pkg[i].Meta)} \ {NoStr}
            IN  \A id \in new :
                    /\ Len(id) = 3 /\ id[1] = "c" /\ IsDigit(id[2]) /\ IsDigit(id[3])
                    /\ id \notin AllIds(pkg[i])

(***************************************************************************)
(* The Latin-1 to UTF-8 expander (reader.go, latin1Reader).                *)
(*                                                                         *)
(* Bytes are numbers 0..255.  rdr[1] is the latin1Reader: r is the source  *)
(* (its data and read position), pending the expanded bytes that did not   *)
(* fit into the caller's buffer.  hist.arg is the whole input, hist.ret    *)
(* the concatenation of everything Read has returned so far, hist.op is    *)
(* "EOF" once a Read has reported the end of the stream (the caller stops  *)
(* reading there, as io.ReadAll and the XML decoder do), and hist.overlap  *)
(* records that the source delivered its last bytes together with EOF.     *)
(***************************************************************************)
MaxInput == 3
MaxBufLen == 3
BufSize == 4096
ByteA == 65
ByteFF == 255
Latin1Bytes == {ByteA, ByteFF}

Min(a, b) == IF a < b THEN a ELSE b

Take(s, n) == SubSeq(s, 1, Min(n, Len(s)))

Drop(s, n) == SubSeq(s, Min(n, Len(s)) + 1, Len(s))

\* 0xC0|(b>>6), 0x80|(b&0x3F) for b >= 0x80: both ORs add disjoint bits.
ExpandByte(b) ==
    IF b < 128 THEN <<b>> ELSE <<192 + (b \div 64), 128 + (b % 64)>>

RECURSIVE Expand(_)
Expand(bs) ==
    IF bs = <<>> THEN <<>> ELSE ExpandByte(Head(bs)) \o Expand(Tail(bs))

\* What one Read of the source into a buffer of `size` bytes may deliver:
\* at the end (0, EOF); otherwise 1..size of the remaining bytes, and the
\* chunk that delivers the last byte may or may not carry EOF with it.
SourceReads(r, size) ==
    LET rest == Len(r.data) - r.ptr
    IN  IF rest = 0
        THEN {[rn |-> 0, eof |-> TRUE]}
        ELSE {[rn |-> k, eof |-> e] :
                  k \in 1..Min(size, rest), e \in BOOLEAN} \
             {c \in [rn : 1..rest, eof : {TRUE}] : c.rn < rest}

\* latin1Reader.Read(p) with len(p) = plen, the source answering with c.
latin1Read(l, plen, c) ==
    IF plen = 0 THEN [l |-> l, out |-> <<>>, eof |-> FALSE]
    ELSE IF l.pending # <<>>
    THEN [l |-> [l EXCEPT !.pending = Drop(l.pending, plen)],
          out |-> Take(l.pending, plen), eof |-> FALSE]
    ELSE LET expanded == Expand(SubSeq(l.r.data, l.r.ptr + 1, l.r.ptr + c.rn))
         IN  [l |-> [r |-> [l.r EXCEPT !.ptr = @ + c.rn],
                     pending |-> Drop(expanded, plen)],
              out |-> Take(expanded, plen), eof |-> c.eof]

CallLatin1Read(plen) ==
    /\ hist.op # "EOF"
    /\ \E c \in SourceReads(rdr[1].r, Min(plen, BufSize)) :
          LET res == latin1Read(rdr[1], plen, c)
          IN  /\ rdr' = <<res.l>>
              /\ hist' = [hist EXCEPT
                     !.calls = @ + 1,
                     !.op = IF res.eof THEN "EOF" ELSE "Read",
                     !.ret = @ \o res.out,
                     !.overlap = @ \/ (rdr[1].pending = <<>> /\ c.eof /\ c.rn > 0),
                     !.before = rdr]
    /\ UNCHANGED <<fs, pkg, sv>>

Latin1Inputs == UNION {[1..n -> Latin1Bytes] : n \in 0..MaxInput}

InitLatin1 ==
    /\ fs = EmptyFS
    /\ pkg = <<>>
    /\ sv = <<>>
    /\ \E input \in Latin1Inputs :
          /\ rdr = <<[r |-> [data |-> input, ptr |-> 0], pending |-> <<>>]>>
          /\ hist = [HistInit(<<>>) EXCEPT !.arg = input, !.ret = <<>>]

NextLatin1 == \E plen \in 1..MaxBufLen : CallLatin1Read(plen)

SpecLatin1 == InitLatin1 /\ [][NextLatin1]_vars

(***************************************************************************)
(* C23: for every input, every sequence of caller buffer sizes and every   *)
(* chunking of the source (the last chunk possibly carrying EOF), the      *)
(* bytes returned up to and including the Read that reports the end of     *)
(* the stream are the expansion of the whole input: nothing lost,          *)
(* duplicated or reordered.                                                *)
(***************************************************************************)
C23_ExpansionComplete ==
    hist.op = "EOF" => hist.ret = Expand(hist.arg)

(***************************************************************************)
(* The cover resolver (part_004: GetCoverImage, SetCover).                 *)
(*                                                                         *)
(* Item ids, the content of a <meta> and the properties attribute are      *)
(* strings the code compares and the claims inspect: sequences of          *)
(* characters.  Href and archive paths are sequences of path segments,     *)
(* media types and image bytes are opaque.  hist.arg holds the arguments   *)
(* of the latest SetCover, hist.rep that SetCover has been called,         *)
(* hist.ret the result of the latest GetCoverImage and hist.before the     *)
(* Reader and Package before the latest call.                              *)
(***************************************************************************)
MaxCoverCalls == 3
CoverId == <<"c", "o", "v", "e", "r">>
CoverImageId == <<"c", "o", "v", "e", "r", "-", "i", "m", "a", "g", "e">>
Img1Id == <<"i", "1">>
OtherId == <<"x">>
PropCoverImage == <<"c", "o", "v", "e", "r", "-", "i", "m", "a", "g", "e">>
PropSvgCoverImage == <<"s", "v", "g", " ", "c", "o", "v", "e", "r", "-", "i", "m", "a", "g", "e">>
JpegType == "image/jpeg"
PngType == "image/png"
OldHref == <<"images", "old.jpg">>
OldCoverName == <<"OEBPS", "images", "old.jpg">>

\* path.Dir and path.Join on slash-separated paths without dot segments
pathDir(p) == SubSeq(p, 1, Len(p) - 1)

pathJoin(dir, rel) == dir \o rel

\* func (r *Reader) GetCoverImage() (io.ReadCloser, string, error)
GetCoverImage(r, p, fsys) ==
    LET items == p.Manifest
        metaHits == {k \in DOMAIN p.Meta : p.Meta[k].Name = "cover"}
        byMeta == IF metaHits = {} THEN NoStr ELSE p.Meta[Least(metaHits)].Content
        propHits == {k \in DOMAIN items : items[k].Properties = PropCoverImage}
        byProp == IF byMeta # NoStr THEN byMeta
                  ELSE IF propHits = {} THEN NoStr ELSE items[Least(propHits)].ID
        idHits == {k \in DOMAIN items : items[k].ID \in {CoverId, CoverImageId}}
        coverItemID == IF byProp # NoStr THEN byProp
                       ELSE IF idHits = {} THEN NoStr ELSE items[Least(idHits)].ID
        found == {k \in DOMAIN items : items[k].ID = coverItemID}
    IN  IF coverItemID = NoStr
        THEN [err |-> "no cover found", data |-> <<>>, mediaType |-> ""]
        ELSE IF found = {}
        THEN [err |-> "cover item not found in manifest", data |-> <<>>, mediaType |-> ""]
        ELSE LET coverItem == items[Least(found)]
                 rc == openFile(FileAt(fsys, r.path), pathJoin(pathDir(r.OpfPath), coverItem.Href))
             IN  IF rc.err # ""
                 THEN [err |-> rc.err, data |-> <<>>, mediaType |-> ""]
                 ELSE [err |-> "", data |-> rc.data, mediaType |-> coverItem.MediaType]

\* Package.setLegacyMeta(name, content): a legacy tag is added on EPUB2
\* packages only (maintain-if-present on EPUB3).
setLegacyMeta(p, name, content) ==
    IF isEPUB3(p) THEN p.Meta ELSE Append(p.Meta, LegacyMeta(name, content))

\* func (r *Reader) SetCover(data []byte, mediaType string)
SetCover(r, p, data, mediaType) ==
    LET fileName == IF mediaType = PngType THEN <<"cover.png">> ELSE <<"cover.jpg">>
        fullPath == pathJoin(pathDir(r.OpfPath), fileName)
        repl == [q \in DOMAIN r.Replacements \cup {fullPath} |->
                    IF q = fullPath THEN data ELSE r.Replacements[q]]
        items == p.Manifest
        hits == {k \in DOMAIN items :
                    items[k].Properties = PropCoverImage \/ items[k].ID = CoverId}
        itemID == IF hits = {} THEN CoverImageId ELSE items[Least(hits)].ID
        manifest == IF hits = {}
                    THEN Append(items, Item(CoverImageId, fileName, mediaType, PropCoverImage))
                    ELSE [items EXCEPT ![Least(hits)].Href = fileName,
                                       ![Least(hits)].MediaType = mediaType]
        metaHits == {k \in DOMAIN p.Meta : p.Meta[k].Name = "cover"}
        meta == IF metaHits # {}
                THEN [p.Meta EXCEPT ![Least(metaHits)].Content = itemID]
                ELSE setLegacyMeta(p, "cover", itemID)
    IN  [reader |-> [r EXCEPT !.Replacements = repl],
         package |-> [p EXCEPT !.Manifest = manifest, !.Meta = meta]]

CallSetCover(data, mediaType) ==
    /\ hist.calls < MaxCoverCalls
    /\ LET res == SetCover(rdr[1], pkg[1], data, mediaType)
       IN  /\ rdr' = <<res.reader>>
           /\ pkg' = <<res.package>>
    /\ hist' = [hist EXCEPT !.calls = @ + 1, !.op = "SetCover", !.rep = TRUE,
                            !.arg = [data |-> data, mediaType |-> mediaType],
                            !.before = <<rdr[1], pkg[1]>>]
    /\ UNCHANGED <<fs, sv>>

CallGetCoverImage ==
    /\ hist.calls < MaxCoverCalls
    /\ hist' = [hist EXCEPT !.calls = @ + 1, !.op = "GetCoverImage",
                            !.ret = GetCoverImage(rdr[1], pkg[1], fs),
                            !.before = <<rdr[1], pkg[1]>>]
    /\ UNCHANGED <<fs, rdr, pkg, sv>>

ChapterItem == Item(StrCh1, <<"chapter1.xhtml">>, XhtmlType, NoStr)

CoverItemPool ==
    {Item(id, OldHref, JpegType, pr) :
        id \in {Img1Id, CoverId, CoverImageId},
        pr \in {NoStr, PropCoverImage, PropSvgCoverImage}}

UniqueIds(items) ==
    \A j, k \in DOMAIN items : items[j].ID = items[k].ID => j = k

CoverManifests ==
    {m \in UNION {[1..n -> CoverItemPool] : n \in 0..2} : UniqueIds(m)}

CoverMetaLists ==
    {<<>>} \cup {<<LegacyMeta("cover", c)>> : c \in {NoStr, Img1Id, CoverId, OtherId}}

CoverPackages ==
    {[Version |-> v, Titles |-> <<"Old Title">>,
      Manifest |-> <<ChapterItem>> \o m, Meta |-> ml] :
        v \in Versions, m \in CoverManifests, ml \in CoverMetaLists}

CoverArch(stale) ==
    GoodFile.entries
    \o <<SrcEntry(OldCoverName, Store, FALSE, <<"old">>)>>
    \o (IF stale THEN <<SrcEntry(CoverName, Store, FALSE, <<"stale">>)>> ELSE <<>>)

CoverData == {<<"new">>, <<"old">>}

InitCover ==
    \E p \in CoverPackages, stale \in BOOLEAN :
        /\ fs = [dir |-> [q \in Paths |-> IF q = "book.epub" THEN 1 ELSE 0],
                 ino |-> <<MkFile(CoverArch(stale), TRUE)>>]
        /\ rdr = <<OpenReader(fs, "book.epub", <<>>)>>
        /\ pkg = <<p>>
        /\ sv = <<>>
        /\ hist = HistInit(p.Meta)

NextCover ==
    \/ \E data \in CoverData, mediaType \in {JpegType, PngType} :
          CallSetCover(data, mediaType)
    \/ CallGetCoverImage

SpecCover == InitCover /\ [][NextCover]_vars

(***************************************************************************)
(* Claims about the cover resolver (checked under SpecCover)               *)
(***************************************************************************)
\* The space-separated tokens of a properties attribute
PropertyTokens(props) ==
    LET parts == Split(props, <<" ">>) IN {parts[k] : k \in DOMAIN parts} \ {NoStr}

\* The id the stated resolution order yields (NoStr: no rule applies)
ResolvedCoverId(p) ==
    LET items == p.Manifest
        metaHits == {k \in DOMAIN p.Meta : p.Meta[k].Name = "cover"}
        byMeta == IF metaHits = {} THEN NoStr ELSE p.Meta[Least(metaHits)].Content
        propHits == {k \in DOMAIN items : CoverImageId \in PropertyTokens(items[k].Properties)}
        idHits == {k \in DOMAIN items : items[k].ID \in {CoverId, CoverImageId}}
    IN  IF byMeta # NoStr THEN byMeta
        ELSE IF propHits # {} THEN items[Least(propHits)].ID
        ELSE IF idHits # {} THEN items[Least(idHits)].ID
        ELSE NoStr

\* Positions of the manifest items with the resolved id
ResolvedCoverItems(p) ==
    {k \in DOMAIN p.Manifest :
        ResolvedCoverId(p) # NoStr /\ p.Manifest[k].ID = ResolvedCoverId(p)}

(***************************************************************************)
(* C24: a cover read resolves the item named by the legacy cover pointer,  *)
(* else the first item whose properties token list contains cover-image,   *)
(* else the first item with id cover or cover-image, and returns that      *)
(* item's file and media type; it fails when no rule applies or the        *)
(* resolved id is not in the manifest.                                     *)
(***************************************************************************)
C24_ResolutionOrder ==
    hist.op = "GetCoverImage" =>
        LET hits == ResolvedCoverItems(pkg[1])
        IN  IF hits = {} THEN hist.ret.err # ""
            ELSE LET it == pkg[1].Manifest[Least(hits)]
                     rc == openFile(FileAt(fs, rdr[1].path),
                                    pathJoin(pathDir(rdr[1].OpfPath), it.Href))
                 IN  IF rc.err # "" THEN hist.ret.err # ""
                     ELSE hist.ret = [err |-> "", data |-> rc.data,
                                      mediaType |-> it.MediaType]

(***************************************************************************)
(* C25: SetCover stores the data in the Replacement Map under              *)
(* <package directory>/cover.<ext>; when the package has a cover item (the *)
(* one a read would resolve) that item is re-pointed and keeps its id and  *)
(* no item is added; otherwise an item with id cover-image is appended.    *)
(***************************************************************************)
C25_SetCoverReusesItem ==
    hist.op = "SetCover" =>
        LET b == hist.before[2]
            a == pkg[1]
            fileName == IF hist.arg.mediaType = PngType
                        THEN <<"cover.png">> ELSE <<"cover.jpg">>
            fullPath == pathJoin(pathDir(rdr[1].OpfPath), fileName)
            hits == ResolvedCoverItems(b)
        IN  /\ fullPath \in DOMAIN rdr[1].Replacements
            /\ rdr[1].Replacements[fullPath] = hist.arg.data
            /\ IF hits # {}
               THEN /\ Len(a.Manifest) = Len(b.Manifest)
                    /\ a.Manifest[Least(hits)] =
                           [b.Manifest[Least(hits)] EXCEPT
                               !.Href = fileName, !.MediaType = hist.arg.mediaType]
               ELSE /\ Len(a.Manifest) = Len(b.Manifest) + 1
                    /\ SubSeq(a.Manifest, 1, Len(b.Manifest)) = b.Manifest
                    /\ a.Manifest[Len(a.Manifest)].ID = CoverImageId
                    /\ a.Manifest[Len(a.Manifest)].Href = fileName

(***************************************************************************)
(* C29: SetCover keeps the ids of the manifest items unique, also for a    *)
(* manifest holding an item with id cover-image and no cover-image         *)
(* property, and after repeated calls.                                     *)
(***************************************************************************)
C29_ManifestIdsUnique ==
    (hist.op = "SetCover" /\ UniqueIds(hist.before[2].Manifest)) =>
        UniqueIds(pkg[1].Manifest)

(***************************************************************************)
(* C30: after SetCover(data, mediaType) and before any Save, a cover read  *)
(* on the same Reader succeeds and returns data with mediaType.            *)
(***************************************************************************)
C30_CoverRoundTrip ==
    (hist.op = "GetCoverImage" /\ hist.rep) =>
        hist.ret = [err |-> "", data |-> hist.arg.data,
                    mediaType |-> hist.arg.mediaType]

(***************************************************************************)
(* Claim about malformed ISBN values (checked under SpecIdent)             *)
(***************************************************************************)
\* A value with a character other than a digit, X, ASCII hyphen or space
MalformedISBN(v) ==
    \E k \in DOMAIN v : ~(IsDigit(v[k]) \/ v[k] \in {"X", "-", " "})

SeparatorFree(s) == ~ContainsChar(s, "-") /\ ~ContainsChar(s, " ")

(***************************************************************************)
(* C26: on a package that is not EPUB3, SetISBN with a separator-free ISBN *)
(* leaves every identifier that had the scheme attribute ISBN and a        *)
(* malformed value with exactly the supplied ISBN as its value.            *)
(***************************************************************************)
C26_MalformedReplaced ==
    (hist.op = "SetISBN" /\ SeparatorFree(hist.arg) /\ ~isEPUB3(pkg[1])) =>
        \A k \in DOMAIN hist.before :
            (hist.before[k].Scheme = ISBNUpper /\ MalformedISBN(hist.before[k].Value)) =>
                pkg[1].Identifiers[k].Value = hist.arg

MaxClosedSaves == 2

\* func (r *Reader) Close() error, between Saves: r.closer.Close()
CallClose(i) ==
    /\ sv[i].pc \in {"idle", "returned"}
    /\ rdr[i].open
    /\ rdr' = [rdr EXCEPT ![i].open = FALSE]
    /\ fs' = Reclaim(fs, {rdr[j].file : j \in {m \in DOMAIN rdr : m # i /\ rdr[m].open}})
    /\ hist' = [hist EXCEPT !.op = "Close", !.calls = sv[i].n]
    /\ UNCHANGED <<pkg, sv>>

\* mimetype, a container.xml entry that carries the directory attribute, and
\* the package document
ArchDirFlagged ==
    <<SrcEntry(MimetypeName, Store, FALSE, MimeBytes),
      SrcEntry(ContainerName, Deflate, TRUE, ContainerDoc(<<RfPackage>>)),
      SrcEntry(OpfName, Deflate, FALSE, OpfContent(SavePackage))>>

ClosedRepl ==
    { <<>>,
      [q \in {ChapterName} |-> <<"replacement">>],
      [q \in {ChapterName, ContainerName} |->
          IF q = ChapterName THEN <<"replacement">> ELSE ContainerDoc(<<RfPackage>>)] }

\* Open("book.epub") has returned; out.epub is absent or left by an earlier run
InitClosed ==
    \E arch \in {ArchReadable, ArchDirFlagged}, repl \in ClosedRepl, old \in BOOLEAN :
        /\ fs = [dir |-> [p \in Paths |->
                            IF p = "book.epub" THEN 1
                            ELSE IF p = "out.epub" /\ old THEN 2 ELSE 0],
                 ino |-> IF old THEN <<MkFile(arch, TRUE), OldOut>>
                         ELSE <<MkFile(arch, TRUE)>>]
        /\ rdr = <<[Open(fs, "book.epub", TRUE).reader[1] EXCEPT !.Replacements = repl]>>
        /\ pkg = Open(fs, "book.epub", TRUE).package
        /\ sv = <<IdleFrame>>
        /\ hist = [HistInit(<<>>) EXCEPT !.prior = StateAt(fs, "book.epub")]

NextClosed ==
    \/ CallClose(1)
    \/ \E out \in SaveDests, ok \in BOOLEAN :
          SaveCreateTempWithin(1, out, ok, MaxClosedSaves)
    \/ \E ok \in BOOLEAN : SaveWriteMimetype(1, ok)
    \/ \E ok \in BOOLEAN : SaveCopyStep(1, ok)
    \/ \E path \in ReplPaths \cup {ContainerName}, ok \in BOOLEAN : SaveNewStep(1, path, ok)
    \/ \E ok \in BOOLEAN : SaveClose(1, ok)
    \/ \E ok \in BOOLEAN : SaveRename(1, ok)

SpecClosed == InitClosed /\ [][NextClosed]_vars

(***************************************************************************)
(* Claims about Save after Close (checked under SpecClosed)                *)
(***************************************************************************)
\* the Save in progress, or the one that returned last, was invoked after Close
SavedAfterClose == hist.op = "Close" /\ sv[1].n > hist.calls

\* the destination holds what it held when Save was invoked, Save returned an
\* error and its temporary file is gone
SaveRefused ==
    /\ StateAt(fs, sv[1].out) = sv[1].before
    /\ sv[1].pc = "returned" =>
          /\ sv[1].err
          /\ sv[1].tmpPath # "" => ~Exists(fs, sv[1].tmpPath)

\* the archive has an entry that Save copies raw
HasRawCopy ==
    \E k \in DOMAIN rdr[1].File :
        LET f == rdr[1].File[k]
        IN  f.name # MimetypeName /\ ~IsDirEntry(f) /\ RawCopied(1, f)

\* C28 as stated: a Save invoked after Close never replaces the destination;
\* it returns an error, the destination keeps its content and the temporary
\* file is removed.
C28_SaveAfterCloseFails == SavedAfterClose => SaveRefused

(***************************************************************************)
(* C28 (amended): a Save invoked after Close on a Reader whose archive has *)
(* an entry that Save copies raw (not mimetype, not flagged as directory,  *)
(* not the package document and not in the Replacement Map) returns an     *)
(* error, leaves the destination with its previous content and removes     *)
(* its temporary file; it never gets past the loop that copies the         *)
(* entries of the archive.                                                 *)
(***************************************************************************)
C28_RawCopyNeedsOpenReader ==
    (SavedAfterClose /\ HasRawCopy) =>
        /\ SaveRefused
        /\ sv[1].pc \in {"mimetype", "copy", "returned"}

C28_Witness ==
    /\ SavedAfterClose
    /\ HasRawCopy
    /\ sv[1].pc = "returned"
    /\ sv[1].err
    /\ sv[1].tmpPath # ""
    /\ ~Exists(fs, sv[1].tmpPath)
    /\ sv[1].out = "out.epub"
    /\ sv[1].before = <<OldOut>>
    /\ StateAt(fs, "out.epub") = <<OldOut>>

====
